---- MODULE Spec2Model ----
(***************************************************************************)
(* Model of the gesture-driven sleep timeline editor of Sleep-Logger:      *)
(* the edit session hook (useSleepEditor.ts), the gesture handlers of a    *)
(* day column (DayColumn.tsx), the segment store (db.ts) and the           *)
(* committed-interval snapshot the timeline screen passes to the editor.   *)
(*                                                                         *)
(* Time is counted in whole minutes.  A local day key is an integer day    *)
(* index and an instant is day * 1440 + minute-of-day (one fixed time      *)
(* zone, no DST transition inside the modelled days); the specification    *)
(* of the time helpers alone, SpecTime, also takes zones whose clocks      *)
(* change on day 1.                                                        *)
(***************************************************************************)
EXTENDS Integers, Sequences, FiniteSets, TLC

\* ---------------------------------------------------------------- constants
MINUTES_PER_DAY == 1440
MIN_DURATION == 60
MIN_CREATE_MINUTES == 60
safeSnap == 5

\* ------------------------------------------------------------------- bounds
MaxDay == 0              \* visible day columns are 0..MaxDay
MaxSessions == 2         \* edit sessions started in one run
MaxUserEvents == 3       \* sessions started plus gesture onChange / onEnd callbacks
MaxOps == 2              \* store calls in flight at the same time
MaxFailures == 1         \* store calls that fail with an I/O error

Days == 0..MaxDay
\* vertical press positions, already converted to a minute by
\* Math.round((1 - y / height) * MINUTES_PER_DAY)
PressMinutes == {1320}
\* values of the defaultDurationMin preference
DefaultDurations == {60, 120}
\* Math.round((-translationY / height) * MINUTES_PER_DAY)
\* and Math.round(translationX / width), Math.floor(translationX / width + 0.5)
Translations == {<<0, 0>>, <<60, 0>>, <<0, 1>>}

\* ------------------------------------------------------------ pure helpers
Max(a, b) == IF a >= b THEN a ELSE b
Min(a, b) == IF a <= b THEN a ELSE b

wClamp(n, lo, hi) == Max(lo, Min(hi, n))

\* Math.round(n / s) * s; Math.round rounds halves up
wSnapTo(n, step) ==
  LET s == IF step > 0 THEN step ELSE 1
  IN ((2 * n + s) \div (2 * s)) * s

\* Math.trunc of a quotient and the JavaScript remainder (sign of dividend)
TruncDiv(a, b) == IF a >= 0 THEN a \div b ELSE -((-a) \div b)
TruncRem(a, b) == a - b * TruncDiv(a, b)

\* the copy of the helper kept in csvExport.ts: Math.floor(mins / 60) hours and
\* mins % 60 minutes
localDateFromDayAndMinutesFloorHours(dayKey, mins) ==
  dayKey * MINUTES_PER_DAY + (mins \div 60) * 60 + TruncRem(mins, 60)

\* new Date(y, m, d, trunc(min / 60), trunc(min % 60)): hours and minutes
\* outside their ranges roll into the neighbouring days
localDateFromDayAndMinutes(dayKey, minutesFromMidnight) ==
  dayKey * MINUTES_PER_DAY
    + TruncDiv(minutesFromMidnight, 60) * 60
    + TruncRem(minutesFromMidnight, 60)

\* baseDate.setDate(baseDate.getDate() + dayOffset)
getDateKeyFromOffset(baseDayKey, dayOffset) == baseDayKey + dayOffset

\* local calendar day and minute-of-day of an instant
\* (getFullYear/getMonth/getDate and getHours() * 60 + getMinutes())
LocalDay(t) == t \div MINUTES_PER_DAY
LocalMinute(t) == t % MINUTES_PER_DAY

\* the two while loops that carry minute overflow into the day offset
RECURSIVE NormalizeMin(_, _)
NormalizeMin(min, off) ==
  IF min < 0 THEN NormalizeMin(min + MINUTES_PER_DAY, off - 1)
  ELSE IF min >= MINUTES_PER_DAY THEN NormalizeMin(min - MINUTES_PER_DAY, off + 1)
  ELSE <<min, off>>

\* ------------------------------------------------------------------- state
VARIABLES
  edit,               \* useState<EditingSession | null>
  startMinSV, endMinSV, startDayOffsetSV, endDayOffsetSV,
  isEditingSV,
  activeDayStartMsSV, \* anchor day of the session, as a day index
  gesture,            \* the pan recognizer that is active, with its snapshot
  store,              \* sleep_segments: id -> row
  dayIndex,           \* day_index: local_date -> total_sleep_min
  segmentsByDate,     \* the snapshot of the store the editor validates against
  reloadPending,      \* onPersist was called and loadDates has not finished
  ops,                \* store calls in flight, each with its caller's closure
  nSessions, nGest, nFail,
  spanOkAtStart,      \* history: the session started with span >= MIN_DURATION
  columnHasSaved,     \* hasSaved of the `edit` prop in the last render of
                      \* the day columns (their deleteEdit closes over it)
  destroyed,          \* history: ids of the sessions the auto-commit effect
                      \* cleared on an overlap conflict
  ev                  \* history: the last handler that ran and what it reported

vars == <<edit, startMinSV, endMinSV, startDayOffsetSV, endDayOffsetSV,
          isEditingSV, activeDayStartMsSV, gesture, store, dayIndex, segmentsByDate,
          reloadPending, ops, nSessions, nGest, nFail, spanOkAtStart,
          columnHasSaved, destroyed, ev>>

\* the run may still take a long-press that starts a session, or a gesture
\* callback
Budget == nSessions + nGest < MaxUserEvents

NoEdit == [id |-> <<"null">>]
\* the value of `ev` after a step that reports nothing to its caller
Quiet == [op |-> "none"]
NoGesture == [kind |-> "none"]

\* a row of sleep_segments; end_utc is <<>> for an open segment (NULL)
Seg(s, e) == [start_utc |-> s, end_utc |-> <<e>>]
OpenSeg(s) == [start_utc |-> s, end_utc |-> <<>>]
IsOpen(seg) == seg.end_utc = <<>>
EndOf(seg) == seg.end_utc[1]

At(day, minute) == day * MINUTES_PER_DAY + minute

\* the store when the timeline opens: a closed segment written by start-now /
\* wake-now shortly before midnight, and a segment that is still open
InitStore ==
  [i \in {<<"db", 1>>, <<"db", 2>>} |->
     IF i = <<"db", 1>> THEN Seg(At(0, 1438), At(0, 1439))
     ELSE OpenSeg(At(0, 600))]

totalStartMin == startMinSV + startDayOffsetSV * MINUTES_PER_DAY
totalEndMin == endMinSV + endDayOffsetSV * MINUTES_PER_DAY


\* ------------------------------------------------------- overlap validator
NoId == <<"undefined">>

\* the validator with <= in place of <: intervals that touch would conflict
checkOverlapTouching(segs, start, end, excludeId) ==
  \/ end <= start
  \/ \E i \in DOMAIN segs :
       /\ i # excludeId
       /\ ~IsOpen(segs[i])
       /\ Max(segs[i].start_utc, start) <= Min(EndOf(segs[i]), end)

checkOverlap(segs, start, end, excludeId) ==
  \/ end <= start
  \/ \E i \in DOMAIN segs :
       /\ i # excludeId
       /\ ~IsOpen(segs[i])
       /\ Max(segs[i].start_utc, start) < Min(EndOf(segs[i]), end)

\* ------------------------------------------- the auto-commit effect (render)
\* what a store call in flight keeps of the `edit` its caller closed over
Closure(e) ==
  [id |-> e.id,
   lastCommittedStart |-> e.lastCommittedStart,
   lastCommittedEnd |-> e.lastCommittedEnd]

StoreCall(kind, e, s, t, sMin, eMin) ==
  [kind |-> kind, cl |-> Closure(e), start |-> s, end |-> t,
   sMin |-> sMin, eMin |-> eMin,
   pc |-> "select", existing |-> FALSE, isCancelled |-> FALSE]

\* the candidate commitNewSegment computes: the minutes of the closed-over
\* edit, the day offsets read from the shared values
NewSegmentStart(e, sOff) ==
  localDateFromDayAndMinutes(getDateKeyFromOffset(e.dayKey, sOff),
                             e.lastCommittedStart)
NewSegmentEnd(e, eOff) ==
  localDateFromDayAndMinutes(getDateKeyFromOffset(e.dayKey, eOff),
                             e.lastCommittedEnd)

\* the effect's cleanup: isCancelled = true in the run of the previous render
CancelAuto(o) ==
  [i \in 1..Len(o) |->
     IF o[i].kind = "auto" THEN [o[i] EXCEPT !.isCancelled = TRUE] ELSE o[i]]

\* the effect without its hasSaved test
EffectRunsWhenSaved(e) == e # NoEdit

EffectRuns(e) == e # NoEdit /\ ~e.hasSaved

EffectConflict(e, segs, sOff, eOff) ==
  /\ EffectRuns(e)
  /\ checkOverlap(segs, NewSegmentStart(e, sOff), NewSegmentEnd(e, eOff), NoId)

\* commitNewSegment up to its first await, with o the calls in flight once
\* the handler that caused the render has returned
commitNewSegment(e, segs, sOff, eOff, o) ==
  IF ~EffectRuns(e) \/ EffectConflict(e, segs, sOff, eOff)
  THEN CancelAuto(o)
  ELSE Append(CancelAuto(o),
              StoreCall("auto", e, NewSegmentStart(e, sOff),
                        NewSegmentEnd(e, eOff), 0, 0))

\* the props the memo comparator of DayColumn compares besides the segments
\* array: the id, isDirty and dayKey of `edit` (hasSaved is not among them)
sameEdit(prev, next) ==
  IF prev = NoEdit \/ next = NoEdit THEN prev = next
  ELSE /\ prev.id = next.id
       /\ prev.isDirty = next.isDirty
       /\ prev.dayKey = next.dayKey

\* a render whose handlers clear the session and leave the shared flag as
\* it was (setEdit(null) without isEditingSV.value = 0)
RenderKeepingFlag(e, segs, sOff, eOff, g, o, newSegs) ==
  LET shown == IF EffectConflict(e, segs, sOff, eOff) THEN NoEdit ELSE e
  IN /\ edit' = shown
     /\ isEditingSV' = IF shown = NoEdit THEN isEditingSV ELSE 1
     /\ gesture' = IF shown = NoEdit THEN NoGesture ELSE g
     /\ ops' = commitNewSegment(e, segs, sOff, eOff, o)
     /\ Len(ops') <= MaxOps
     /\ destroyed' = IF EffectConflict(e, segs, sOff, eOff)
                     THEN destroyed \cup {e.id} ELSE destroyed
     /\ columnHasSaved' =
          IF shown = NoEdit THEN FALSE
          ELSE IF newSegs \/ ~sameEdit(edit, shown) THEN shown.hasSaved
          ELSE columnHasSaved

\* A render after `edit` or `segmentsByDate` changed identity: the effect of
\* useSleepEditor is cleaned up and run again.  e, segs, sOff, eOff are the
\* values the handler left, g the active recognizer, o the calls in flight,
\* newSegs tells that the segments arrays were replaced.  The gesture
\* detectors live in the editing overlay, which is mounted only while a
\* session exists; a day column renders again, and takes the new deleteEdit,
\* only when its comparator finds a difference.
RenderWith(e, segs, sOff, eOff, g, o, newSegs) ==
  LET shown == IF EffectConflict(e, segs, sOff, eOff) THEN NoEdit ELSE e
  IN /\ edit' = shown
     /\ isEditingSV' = IF shown = NoEdit THEN 0 ELSE 1
     /\ gesture' = IF shown = NoEdit THEN NoGesture ELSE g
     /\ ops' = commitNewSegment(e, segs, sOff, eOff, o)
     /\ Len(ops') <= MaxOps
     /\ destroyed' = IF EffectConflict(e, segs, sOff, eOff)
                     THEN destroyed \cup {e.id} ELSE destroyed
     /\ columnHasSaved' =
          IF shown = NoEdit THEN FALSE
          ELSE IF newSegs \/ ~sameEdit(edit, shown) THEN shown.hasSaved
          ELSE columnHasSaved

Render(e, segs, sOff, eOff, g, o) ==
  RenderWith(e, segs, sOff, eOff, g, o, FALSE)

\* ------------------------------------------------------------ start an edit
startNewEditWithOffset(dayKey, startMin, endMin, startDayOffset, endDayOffset) ==
  LET e == [id |-> <<"uuid", nSessions + 1>>, hasSaved |-> FALSE, dayKey |-> dayKey,
            isDirty |-> TRUE, lastCommittedStart |-> startMin,
            lastCommittedEnd |-> endMin, isCommitting |-> FALSE]
  IN /\ nSessions < MaxSessions /\ Budget
     /\ nSessions' = nSessions + 1
     /\ startMinSV' = startMin
     /\ endMinSV' = endMin
     /\ activeDayStartMsSV' = dayKey
     /\ startDayOffsetSV' = startDayOffset
     /\ endDayOffsetSV' = endDayOffset
     /\ spanOkAtStart' =
          ((endMin + endDayOffset * MINUTES_PER_DAY)
             - (startMin + startDayOffset * MINUTES_PER_DAY) >= MIN_DURATION)
     /\ Render(e, segmentsByDate, startDayOffset, endDayOffset, NoGesture, ops)
     /\ ev' = [op |-> "startNew", id |-> e.id, conflict |-> (edit' = NoEdit)]
     /\ UNCHANGED <<store, dayIndex, segmentsByDate, reloadPending, nGest, nFail>>

startNewEdit(dayKey, startMin, endMin) ==
  startNewEditWithOffset(dayKey, startMin, endMin, 0, 0)

\* the start and end minute longPressEmpty derives from the press position
PressStartMin(pressMin) ==
  Max(0, wSnapTo(Min(pressMin, MINUTES_PER_DAY - MIN_DURATION), safeSnap))

DesiredDuration(defaultDurationMin) ==
  Max(MIN_CREATE_MINUTES, Min(defaultDurationMin, MINUTES_PER_DAY))

\* longPressEmpty without its overnight branch: the end is always clamped
\* into the pressed day
longPressEmptySameDay(dateKey, pressMin, defaultDurationMin) ==
  LET startMin == PressStartMin(pressMin)
      endMin == Min(MINUTES_PER_DAY - 1,
                    startMin + DesiredDuration(defaultDurationMin))
  IN /\ edit = NoEdit
     /\ startNewEdit(dateKey, startMin, endMin)

longPressEmpty(dateKey, pressMin, defaultDurationMin) ==
  LET startMin == PressStartMin(pressMin)
      desiredDuration == DesiredDuration(defaultDurationMin)
      wouldCrossMidnight == startMin + desiredDuration >= MINUTES_PER_DAY
  IN IF edit # NoEdit
     THEN \* already editing: ignored
          /\ ev' = Quiet
          /\ UNCHANGED <<columnHasSaved, destroyed, edit, startMinSV, endMinSV, startDayOffsetSV,
                         endDayOffsetSV, isEditingSV, activeDayStartMsSV,
                         gesture, store, dayIndex, segmentsByDate, reloadPending, ops,
                         nSessions, nGest, nFail, spanOkAtStart>>
     ELSE IF wouldCrossMidnight
     THEN LET endMin ==
                Max(0, wSnapTo((startMin + desiredDuration) - MINUTES_PER_DAY,
                               safeSnap))
          IN startNewEditWithOffset(dateKey, startMin, endMin, 0, 1)
     ELSE LET endMin0 == Min(MINUTES_PER_DAY - 1, startMin + desiredDuration)
              startMin1 == IF endMin0 - startMin < MIN_CREATE_MINUTES
                           THEN Max(0, endMin0 - MIN_CREATE_MINUTES)
                           ELSE startMin
              endMin1 == Min(MINUTES_PER_DAY - 1,
                             Max(startMin1 + MIN_CREATE_MINUTES,
                                 wSnapTo(endMin0, safeSnap)))
              endMin2 == IF endMin1 - startMin1 < MIN_CREATE_MINUTES
                         THEN Min(MINUTES_PER_DAY - 1,
                                  startMin1 + MIN_CREATE_MINUTES)
                         ELSE endMin1
          IN startNewEdit(dateKey, startMin1, endMin2)

\* a segment of the snapshot is drawn, and can be long-pressed, in the columns
\* whose day it overlaps (clampSegmentToLocalDay is not null), unless it is
\* the saved segment of the session, which is hidden
DrawnIn(seg, dateKey) ==
  LET dayStart == dateKey * MINUTES_PER_DAY
      dayEnd == (dateKey + 1) * MINUTES_PER_DAY
      segEnd == IF IsOpen(seg) THEN dayEnd ELSE EndOf(seg)
  IN Min(segEnd, dayEnd) > Max(seg.start_utc, dayStart)

isFocusedExisting(i) == edit # NoEdit /\ edit.hasSaved /\ i = edit.id

startExistingEdit(i, dateKey) ==
  LET seg == segmentsByDate[i]
  IN IF IsOpen(seg)
     THEN /\ ev' = Quiet
          /\ UNCHANGED <<columnHasSaved, destroyed, edit, startMinSV, endMinSV, startDayOffsetSV,
                         endDayOffsetSV, isEditingSV, activeDayStartMsSV,
                         gesture, store, dayIndex, segmentsByDate, reloadPending, ops,
                         nSessions, nGest, nFail, spanOkAtStart>>
     ELSE LET startDayOffset == LocalDay(seg.start_utc) - dateKey
              endDayOffset == LocalDay(EndOf(seg)) - dateKey
              startMin == LocalMinute(seg.start_utc)
              endMin == LocalMinute(EndOf(seg))
              e == [id |-> i, hasSaved |-> TRUE, dayKey |-> dateKey,
                    isDirty |-> FALSE, lastCommittedStart |-> startMin,
                    lastCommittedEnd |-> endMin, isCommitting |-> FALSE]
          IN /\ nSessions < MaxSessions /\ Budget
             /\ nSessions' = nSessions + 1
             /\ activeDayStartMsSV' = dateKey
             /\ startMinSV' = startMin
             /\ endMinSV' = endMin
             /\ startDayOffsetSV' = startDayOffset
             /\ endDayOffsetSV' = endDayOffset
             /\ spanOkAtStart' =
                  (EndOf(seg) - seg.start_utc >= MIN_DURATION)
             /\ Render(e, segmentsByDate, startDayOffset, endDayOffset,
                       gesture, ops)
             /\ ev' = [op |-> "startExisting", rejected |-> FALSE,
                       replaced |-> (edit # NoEdit)]
             /\ UNCHANGED <<store, dayIndex, segmentsByDate, reloadPending, nGest, nFail>>

longPressSegGesture(i, dateKey) ==
  /\ i \in DOMAIN segmentsByDate
  /\ DrawnIn(segmentsByDate[i], dateKey)
  /\ ~isFocusedExisting(i)
  /\ startExistingEdit(i, dateKey)

\* ---------------------------------------------------------------- markDirty
\* setEdit(prev => prev ? {...prev, isDirty: true} : prev), with the shared
\* values as the calling worklet left them
\* setEdit(prev => ({...prev, isDirty: true})): markDirty without its null test
markDirtyUnguarded(sOff, eOff, g) ==
  IF edit = NoEdit
  THEN /\ edit' = [id |-> <<"null">>, isDirty |-> TRUE]
       /\ gesture' = NoGesture
       /\ UNCHANGED <<columnHasSaved, destroyed, isEditingSV, ops>>
  ELSE Render([edit EXCEPT !.isDirty = TRUE], segmentsByDate, sOff, eOff, g, ops)

markDirty(sOff, eOff, g) ==
  IF edit = NoEdit
  THEN /\ gesture' = NoGesture
       /\ UNCHANGED <<columnHasSaved, destroyed, edit, isEditingSV, ops>>
  ELSE Render([edit EXCEPT !.isDirty = TRUE], segmentsByDate, sOff, eOff, g, ops)


\* ----------------------------------------------------------------- gestures
\* while (endMin >= MINUTES_PER_DAY) { dayOffset++; endMin -= MINUTES_PER_DAY }
RECURSIVE NormalizeUp(_, _)
NormalizeUp(min, off) ==
  IF min >= MINUTES_PER_DAY THEN NormalizeUp(min - MINUTES_PER_DAY, off + 1)
  ELSE <<min, off>>

GestureFrame == <<store, dayIndex, segmentsByDate, reloadPending, nSessions, nFail,
                  spanOkAtStart, activeDayStartMsSV>>

\* the end handle is touchable in the column of its day
gTopOnStart ==
  /\ edit # NoEdit /\ gesture = NoGesture
  /\ gesture' = [kind |-> "top",
                 col |-> activeDayStartMsSV + endDayOffsetSV,
                 initOffset |-> endDayOffsetSV, initMin |-> endMinSV]
  /\ ev' = Quiet
  /\ UNCHANGED <<columnHasSaved, destroyed, edit, startMinSV, endMinSV, startDayOffsetSV, endDayOffsetSV,
                 isEditingSV, ops, nGest>>
  /\ UNCHANGED GestureFrame

\* the end minute and day offset gTop.onChange computes
TopDrag(initMin, initOffset, deltaMin, dayDelta) ==
  LET n == NormalizeMin(initMin + deltaMin, initOffset + dayDelta)
      clamped == IF n[2] < startDayOffsetSV
                 THEN <<0, startDayOffsetSV>> ELSE n
      endMin == clamped[1]
      dayOffset == clamped[2]
      totalStart == startMinSV + startDayOffsetSV * MINUTES_PER_DAY
      totalEnd == endMin + dayOffset * MINUTES_PER_DAY
  IN IF totalEnd - totalStart < MIN_DURATION
     THEN NormalizeUp(totalStart - dayOffset * MINUTES_PER_DAY + MIN_DURATION,
                      dayOffset)
     ELSE <<endMin, dayOffset>>

gTopOnChange(deltaMin, dayDelta) ==
  /\ gesture.kind = "top" /\ Budget
  /\ nGest' = nGest + 1
  /\ ev' = [op |-> "gTop.onChange"]
  /\ IF isEditingSV # 1
     THEN UNCHANGED <<columnHasSaved, destroyed, edit, startMinSV, endMinSV, startDayOffsetSV,
                      endDayOffsetSV, isEditingSV, gesture, ops>>
     ELSE LET r == TopDrag(gesture.initMin, gesture.initOffset, deltaMin, dayDelta)
          IN /\ endMinSV' = r[1]
             /\ endDayOffsetSV' = r[2]
             /\ UNCHANGED <<startMinSV, startDayOffsetSV>>
             /\ markDirty(startDayOffsetSV, r[2], gesture)
  /\ UNCHANGED GestureFrame

gTopOnEnd ==
  /\ gesture.kind = "top" /\ Budget
  /\ nGest' = nGest + 1
  /\ LET isHandleHere ==
           /\ gesture.col = activeDayStartMsSV + endDayOffsetSV
           /\ isEditingSV = 1
         r == NormalizeMin(wSnapTo(endMinSV, safeSnap), endDayOffsetSV)
     IN /\ ev' = [op |-> "gTop.onEnd", snapped |-> isHandleHere]
        /\ IF ~isHandleHere
           THEN /\ gesture' = NoGesture
                /\ UNCHANGED <<columnHasSaved, destroyed, edit, startMinSV, endMinSV, startDayOffsetSV,
                               endDayOffsetSV, isEditingSV, ops>>
           ELSE /\ endMinSV' = r[1]
                /\ endDayOffsetSV' = r[2]
                /\ UNCHANGED <<startMinSV, startDayOffsetSV>>
                /\ markDirty(startDayOffsetSV, r[2], NoGesture)
  /\ UNCHANGED GestureFrame

gBottomOnStart ==
  /\ edit # NoEdit /\ gesture = NoGesture
  /\ gesture' = [kind |-> "bottom",
                 col |-> activeDayStartMsSV + startDayOffsetSV,
                 initOffset |-> startDayOffsetSV, initMin |-> startMinSV]
  /\ ev' = Quiet
  /\ UNCHANGED <<columnHasSaved, destroyed, edit, startMinSV, endMinSV, startDayOffsetSV, endDayOffsetSV,
                 isEditingSV, ops, nGest>>
  /\ UNCHANGED GestureFrame

\* startMin = wClamp(totalEndMin - dayOffset * MINUTES_PER_DAY - MIN_DURATION, ...)
BottomMinDuration(totalEnd, dayOffset) ==
  wClamp(totalEnd - dayOffset * MINUTES_PER_DAY - MIN_DURATION,
         0, MINUTES_PER_DAY)

\* the start minute and day offset gBottom.onChange computes
BottomDrag(initMin, initOffset, deltaMin, dayDelta) ==
  LET n == NormalizeMin(initMin + deltaMin, initOffset + dayDelta)
      clamped == IF n[2] > endDayOffsetSV
                 THEN <<MINUTES_PER_DAY - 1, endDayOffsetSV>> ELSE n
      dayOffset == clamped[2]
      startMin == wClamp(clamped[1], 0, MINUTES_PER_DAY)
      totalStart == startMin + dayOffset * MINUTES_PER_DAY
      totalEnd == endMinSV + endDayOffsetSV * MINUTES_PER_DAY
  IN IF totalEnd - totalStart < MIN_DURATION
     THEN <<BottomMinDuration(totalEnd, dayOffset), dayOffset>>
     ELSE <<startMin, dayOffset>>

gBottomOnChange(deltaMin, dayDelta) ==
  /\ gesture.kind = "bottom" /\ Budget
  /\ nGest' = nGest + 1
  /\ ev' = [op |-> "gBottom.onChange"]
  /\ IF isEditingSV # 1
     THEN UNCHANGED <<columnHasSaved, destroyed, edit, startMinSV, endMinSV, startDayOffsetSV,
                      endDayOffsetSV, isEditingSV, gesture, ops>>
     ELSE LET r == BottomDrag(gesture.initMin, gesture.initOffset,
                              deltaMin, dayDelta)
          IN /\ startMinSV' = r[1]
             /\ startDayOffsetSV' = r[2]
             /\ UNCHANGED <<endMinSV, endDayOffsetSV>>
             /\ markDirty(r[2], endDayOffsetSV, gesture)
  /\ UNCHANGED GestureFrame

\* wClamp(wSnapTo(startMinSV.value, safeSnap), 0, MINUTES_PER_DAY)
BottomSnap(startMin) == wClamp(wSnapTo(startMin, safeSnap), 0, MINUTES_PER_DAY)

gBottomOnEnd ==
  /\ gesture.kind = "bottom" /\ Budget
  /\ nGest' = nGest + 1
  /\ LET isHandleHere ==
           /\ gesture.col = activeDayStartMsSV + startDayOffsetSV
           /\ isEditingSV = 1
     IN /\ ev' = [op |-> "gBottom.onEnd", snapped |-> isHandleHere]
        /\ IF ~isHandleHere
           THEN /\ gesture' = NoGesture
                /\ UNCHANGED <<columnHasSaved, destroyed, edit, startMinSV, endMinSV, startDayOffsetSV,
                               endDayOffsetSV, isEditingSV, ops>>
           ELSE /\ startMinSV' = BottomSnap(startMinSV)
                /\ UNCHANGED <<endMinSV, startDayOffsetSV, endDayOffsetSV>>
                /\ markDirty(startDayOffsetSV, endDayOffsetSV, NoGesture)
  /\ UNCHANGED GestureFrame

\* the body is touchable in the columns the session spans
gBodyOnStart ==
  /\ edit # NoEdit /\ gesture = NoGesture
  /\ gesture' = [kind |-> "body",
                 initStartMin |-> startMinSV, initEndMin |-> endMinSV,
                 initStartOffset |-> startDayOffsetSV,
                 initEndOffset |-> endDayOffsetSV]
  /\ ev' = Quiet
  /\ UNCHANGED <<columnHasSaved, destroyed, edit, startMinSV, endMinSV, startDayOffsetSV, endDayOffsetSV,
                 isEditingSV, ops, nGest>>
  /\ UNCHANGED GestureFrame

\* a body drag that moves the start handle only
gBodyOnChangeStartOnly(deltaMin, dayShift) ==
  /\ gesture.kind = "body" /\ Budget
  /\ nGest' = nGest + 1
  /\ ev' = [op |-> "gBody.onChange"]
  /\ IF isEditingSV # 1
     THEN UNCHANGED <<startMinSV, endMinSV, startDayOffsetSV, endDayOffsetSV>>
     ELSE LET s == NormalizeMin(gesture.initStartMin + deltaMin,
                                gesture.initStartOffset + dayShift)
          IN /\ startMinSV' = s[1]
             /\ startDayOffsetSV' = s[2]
             /\ UNCHANGED <<endMinSV, endDayOffsetSV>>
  /\ UNCHANGED <<columnHasSaved, destroyed, edit, isEditingSV, gesture, ops>>
  /\ UNCHANGED GestureFrame

gBodyOnChange(deltaMin, dayShift) ==
  /\ gesture.kind = "body" /\ Budget
  /\ nGest' = nGest + 1
  /\ ev' = [op |-> "gBody.onChange"]
  /\ IF isEditingSV # 1
     THEN UNCHANGED <<startMinSV, endMinSV, startDayOffsetSV, endDayOffsetSV>>
     ELSE LET s == NormalizeMin(gesture.initStartMin + deltaMin,
                                gesture.initStartOffset + dayShift)
              e == NormalizeMin(gesture.initEndMin + deltaMin,
                                gesture.initEndOffset + dayShift)
          IN /\ startMinSV' = s[1]
             /\ endMinSV' = e[1]
             /\ startDayOffsetSV' = s[2]
             /\ endDayOffsetSV' = e[2]
  \* no React state update per frame: dirty is marked on gesture end
  /\ UNCHANGED <<columnHasSaved, destroyed, edit, isEditingSV, gesture, ops>>
  /\ UNCHANGED GestureFrame

gBodyOnEnd ==
  /\ gesture.kind = "body" /\ Budget
  /\ nGest' = nGest + 1
  /\ ev' = [op |-> "gBody.onEnd"]
  /\ LET s == NormalizeMin(wSnapTo(startMinSV, safeSnap), startDayOffsetSV)
         e == NormalizeMin(wSnapTo(endMinSV, safeSnap), endDayOffsetSV)
     IN /\ startMinSV' = s[1]
        /\ endMinSV' = e[1]
        /\ startDayOffsetSV' = s[2]
        /\ endDayOffsetSV' = e[2]
        /\ markDirty(s[2], e[2], NoGesture)
  /\ UNCHANGED GestureFrame


\* ------------------------------------------------------------ commit / exit
\* the instants the session's coordinates encode (getDateKeyFromOffset, then
\* localDateFromDayAndMinutes), as commitEdit decodes them
CandidateStart ==
  localDateFromDayAndMinutes(getDateKeyFromOffset(edit.dayKey, startDayOffsetSV),
                             startMinSV)
CandidateEnd ==
  localDateFromDayAndMinutes(getDateKeyFromOffset(edit.dayKey, endDayOffsetSV),
                             endMinSV)

EditorFrame == <<startMinSV, endMinSV, startDayOffsetSV, endDayOffsetSV,
                 activeDayStartMsSV, store, dayIndex, segmentsByDate, nSessions, nGest,
                 nFail, spanOkAtStart>>

\* commitEdit up to its first await; `edit` is the edit of the current render
commitEdit ==
  /\ edit # NoEdit
  /\ IF CandidateEnd <= CandidateStart
     THEN /\ Render([edit EXCEPT !.isCommitting = FALSE], segmentsByDate,
                    startDayOffsetSV, endDayOffsetSV, gesture, ops)
          /\ ev' = [op |-> "exit", ok |-> FALSE, reason |-> "invalid",
                    id |-> edit.id, session |-> edit,
                    writes |-> Len(ops') - Len(ops)]
     ELSE IF checkOverlap(segmentsByDate, CandidateStart, CandidateEnd,
                          IF edit.hasSaved THEN edit.id ELSE NoId)
     THEN /\ Render([edit EXCEPT !.isCommitting = FALSE], segmentsByDate,
                    startDayOffsetSV, endDayOffsetSV, gesture, ops)
          /\ ev' = [op |-> "exit", ok |-> FALSE, reason |-> "overlap",
                    id |-> edit.id, session |-> edit,
                    writes |-> Len(ops') - Len(ops)]
     ELSE /\ Render([edit EXCEPT !.isCommitting = TRUE], segmentsByDate,
                    startDayOffsetSV, endDayOffsetSV, gesture,
                    Append(ops, StoreCall("commit", edit, CandidateStart,
                                          CandidateEnd, startMinSV, endMinSV)))
          /\ ev' = [op |-> "commitEdit", id |-> edit.id,
                    outstanding |->
                      Cardinality({i \in 1..Len(ops) :
                                     /\ ops[i].kind = "commit"
                                     /\ ops[i].cl.id = edit.id})]
  /\ UNCHANGED reloadPending
  /\ UNCHANGED EditorFrame

exitEditMode ==
  IF edit = NoEdit
  THEN /\ ev' = [op |-> "exit", ok |-> TRUE, idle |-> TRUE]
       /\ UNCHANGED <<columnHasSaved, destroyed, edit, isEditingSV, gesture, ops, reloadPending>>
       /\ UNCHANGED EditorFrame
  ELSE IF edit.isDirty
  THEN commitEdit
  ELSE /\ Render(NoEdit, segmentsByDate, startDayOffsetSV, endDayOffsetSV,
                 NoGesture, ops)
       /\ ev' = [op |-> "exit", ok |-> TRUE, idle |-> FALSE,
                 id |-> edit.id, saved |-> edit.hasSaved,
                 start |-> CandidateStart, end |-> CandidateEnd]
       /\ UNCHANGED reloadPending
       /\ UNCHANGED EditorFrame

\* --------------------------------------------------------------- force exit
\* forceExitEditMode without its setEdit(null): the session is kept
forceExitKeepingSession(o) ==
  /\ ops' = o
  /\ ev' = [op |-> "forceExit", active |-> (edit # NoEdit),
            storeCalls |-> Len(ops') - Len(o)]
  /\ UNCHANGED <<columnHasSaved, destroyed, edit, isEditingSV, gesture>>
  /\ UNCHANGED reloadPending
  /\ UNCHANGED EditorFrame

\* setEdit(null); isEditingSV.value = 0, with o the store calls in flight
\* when it is called
forceExitEditMode(o) ==
  /\ Render(NoEdit, segmentsByDate, startDayOffsetSV, endDayOffsetSV,
            NoGesture, o)
  /\ ev' = [op |-> "forceExit", active |-> (edit # NoEdit),
            storeCalls |-> Len(ops') - Len(o)]
  /\ UNCHANGED reloadPending
  /\ UNCHANGED EditorFrame

\* the cleanup on unmount: exitEditMode is called and not awaited, then
\* forceExitEditMode; of exitEditMode only the part before its first await
\* has run, which has started the upsert when the session is dirty and valid
unmountCleanup ==
  /\ edit # NoEdit
  /\ forceExitEditMode(
       IF /\ edit.isDirty
          /\ CandidateEnd > CandidateStart
          /\ ~checkOverlap(segmentsByDate, CandidateStart, CandidateEnd,
                           IF edit.hasSaved THEN edit.id ELSE NoId)
       THEN Append(ops, StoreCall("commit", edit, CandidateStart,
                                  CandidateEnd, startMinSV, endMinSV))
       ELSE ops)

\* saveAndExitEditMode on blur after `await exitEditMode()` returned false
saveAndExitEditMode ==
  /\ ev.op = "exit" /\ ~ev.ok
  /\ forceExitEditMode(ops)

\* ------------------------------------------------------------------- delete
\* the deleteSegment calls in flight for segment id
DeleteCalls(o, id) ==
  Cardinality({i \in 1..Len(o) : o[i].kind = "delete" /\ o[i].cl.id = id})

\* deleteEdit without its hasSaved test: every delete goes to the store
deleteEditAlwaysStore ==
  /\ edit # NoEdit
  /\ ops' = Append(ops, StoreCall("delete", edit, 0, 0, 0, 0))
  /\ Len(ops') <= MaxOps
  /\ ev' = [op |-> "delete", saved |-> edit.hasSaved, id |-> edit.id,
            storeCalls |-> DeleteCalls(ops', edit.id) - DeleteCalls(ops, edit.id)]
  /\ UNCHANGED <<columnHasSaved, destroyed, edit, isEditingSV, gesture>>
  /\ UNCHANGED reloadPending
  /\ UNCHANGED EditorFrame

\* deleteEdit up to its first await, as the double tap of a day column calls
\* it: the callback closes over the `edit` of the column's last render
deleteEdit ==
  /\ edit # NoEdit
  /\ IF ~columnHasSaved
     THEN Render(NoEdit, segmentsByDate, startDayOffsetSV, endDayOffsetSV,
                 NoGesture, ops)
     ELSE /\ ops' = Append(ops, StoreCall("delete", edit, 0, 0, 0, 0))
          /\ Len(ops') <= MaxOps
          /\ UNCHANGED <<columnHasSaved, destroyed, edit, isEditingSV, gesture>>
  /\ ev' = [op |-> "delete", saved |-> edit.hasSaved, id |-> edit.id,
            storeCalls |-> DeleteCalls(ops', edit.id) - DeleteCalls(ops, edit.id)]
  /\ UNCHANGED reloadPending
  /\ UNCHANGED EditorFrame


\* ------------------------------------------------------------ segment store
RemoveAt(o, i) == SubSeq(o, 1, i - 1) \o SubSeq(o, i + 1, Len(o))

\* an upsert whose UPDATE moves the stored end by the length of the new row
\* instead of replacing it
UpsertExtending(st, id, row) ==
  [j \in DOMAIN st \cup {id} |->
     IF j # id THEN st[j]
     ELSE IF id \in DOMAIN st /\ ~IsOpen(st[id])
     THEN Seg(row.start_utc, EndOf(st[id]) + (EndOf(row) - row.start_utc))
     ELSE row]

\* UPDATE sleep_segments SET ... WHERE id=? / INSERT INTO sleep_segments
Upsert(st, id, row) == [j \in DOMAIN st \cup {id} |-> IF j = id THEN row ELSE st[j]]
Delete(st, id) == [j \in DOMAIN st \ {id} |-> st[j]]

\* ---------------------------------------------------------------- day index
\* the window test with both bounds included
getSegmentsTouchingLocalDate(st, localDate) ==
  {i \in DOMAIN st :
     /\ st[i].start_utc <= (localDate + 1) * MINUTES_PER_DAY
     /\ (IsOpen(st[i]) \/ EndOf(st[i]) >= localDate * MINUTES_PER_DAY)}

\* SELECT * FROM sleep_segments WHERE start_utc < winEnd
\*   AND (end_utc IS NULL OR end_utc > winStart): the ids of the rows
getSegmentsForLocalDate(st, localDate) ==
  {i \in DOMAIN st :
     /\ st[i].start_utc < (localDate + 1) * MINUTES_PER_DAY
     /\ (IsOpen(st[i]) \/ EndOf(st[i]) > localDate * MINUTES_PER_DAY)}

\* Math.max(0, b.diff(a, "minute"))
durationMin(startUtc, endUtc) == Max(0, endUtc - startUtc)

\* for (const s of segs) if (s.end_utc) total += durationMin(...)
RECURSIVE TotalOf(_, _)
TotalOf(st, ids) ==
  IF ids = {} THEN 0
  ELSE LET i == CHOOSE j \in ids : TRUE
       IN (IF IsOpen(st[i]) THEN 0
           ELSE durationMin(st[i].start_utc, EndOf(st[i])))
          + TotalOf(st, ids \ {i})

\* INSERT INTO day_index ... ON CONFLICT(local_date) DO UPDATE
recomputeDayIndexForLocalDate(ix, st, localDate) ==
  [d \in DOMAIN ix \cup {localDate} |->
     IF d = localDate THEN TotalOf(st, getSegmentsForLocalDate(st, localDate))
     ELSE ix[d]]

recomputeDayIndexForUtcInstant(ix, st, utc) ==
  recomputeDayIndexForLocalDate(ix, st, LocalDay(utc))

\* the recomputations at the end of a write: the day of the start, then the
\* day of the end
RecomputeWritten(ix, st, startUtc, endUtc) ==
  recomputeDayIndexForUtcInstant(
    recomputeDayIndexForUtcInstant(ix, st, startUtc), st, endUtc)

\* the day_index a store holds when each of its rows was written once, by
\* calls that ran one after the other
RECURSIVE IndexAfterWrites(_, _, _)
IndexAfterWrites(ix, st, ids) ==
  IF ids = {} THEN ix
  ELSE LET i == CHOOSE j \in ids : TRUE
           endUtc == IF IsOpen(st[i]) THEN st[i].start_utc ELSE EndOf(st[i])
       IN IndexAfterWrites(RecomputeWritten(ix, st, st[i].start_utc, endUtc),
                           st, ids \ {i})

NoRows == [i \in {} |-> Seg(0, 0)]
NoDays == [d \in {} |-> 0]

StoreFrame == <<startDayOffsetSV, endDayOffsetSV, activeDayStartMsSV,
                segmentsByDate, nSessions, nGest, spanOkAtStart>>

\* what runs after `await upsertSegment(...)` resolves in commitNewSegment
AutoCommitResolved(c, o) ==
  /\ IF c.isCancelled
     THEN /\ ops' = o
          /\ UNCHANGED <<columnHasSaved, destroyed, edit, isEditingSV, gesture, reloadPending>>
     ELSE /\ IF edit # NoEdit /\ edit.id = c.cl.id
             THEN Render([edit EXCEPT !.hasSaved = TRUE, !.isDirty = TRUE],
                         segmentsByDate, startDayOffsetSV, endDayOffsetSV,
                         gesture, o)
             ELSE /\ ops' = o
                  /\ UNCHANGED <<columnHasSaved, destroyed, edit, isEditingSV, gesture>>
          /\ reloadPending' = TRUE
  /\ ev' = [op |-> "autoCommit", ok |-> TRUE, id |-> c.cl.id,
            applied |-> ~c.isCancelled]
  /\ UNCHANGED <<startMinSV, endMinSV>>

\* the catch block of commitNewSegment
AutoCommitRejected(c, o) ==
  /\ IF c.isCancelled
     THEN /\ ops' = o
          /\ UNCHANGED <<columnHasSaved, destroyed, edit, isEditingSV, gesture>>
     ELSE Render(NoEdit, segmentsByDate, startDayOffsetSV, endDayOffsetSV,
                 NoGesture, o)
  /\ ev' = [op |-> "autoCommit", ok |-> FALSE, id |-> c.cl.id,
            applied |-> ~c.isCancelled]
  /\ UNCHANGED <<startMinSV, endMinSV, reloadPending>>

\* commitEdit after `await upsertSegment(...)`, then exitEditMode after
\* `await commitEdit()`: the session is updated and then cleared
CommitResolved(c, o) ==
  /\ Render(NoEdit, segmentsByDate, startDayOffsetSV, endDayOffsetSV,
            NoGesture, o)
  /\ reloadPending' = TRUE
  /\ ev' = [op |-> "exit", ok |-> TRUE, idle |-> FALSE, id |-> c.cl.id,
            saved |-> (edit # NoEdit /\ edit.id = c.cl.id),
            start |-> IF edit # NoEdit THEN CandidateStart ELSE 0,
            end |-> IF edit # NoEdit THEN CandidateEnd ELSE 0]
  /\ UNCHANGED <<startMinSV, endMinSV>>

\* the catch block of commitEdit; exitEditMode then returns false
CommitRejected(c, o) ==
  /\ startMinSV' = c.cl.lastCommittedStart
  /\ endMinSV' = c.cl.lastCommittedEnd
  /\ IF edit = NoEdit
     THEN /\ ops' = o
          /\ UNCHANGED <<columnHasSaved, destroyed, edit, isEditingSV, gesture>>
     ELSE Render([edit EXCEPT !.isDirty = FALSE, !.isCommitting = FALSE],
                 segmentsByDate, startDayOffsetSV, endDayOffsetSV, gesture, o)
  /\ ev' = [op |-> "exit", ok |-> FALSE, reason |-> "store",
            id |-> c.cl.id, session |-> edit]
  /\ UNCHANGED reloadPending

\* deleteEdit after `await deleteSegment(...)`
DeleteResolved(c, o) ==
  /\ Render(NoEdit, segmentsByDate, startDayOffsetSV, endDayOffsetSV,
            NoGesture, o)
  /\ reloadPending' = TRUE
  /\ ev' = [op |-> "deleted", ok |-> TRUE, id |-> c.cl.id]
  /\ UNCHANGED <<startMinSV, endMinSV>>

DeleteRejected(c, o) ==
  /\ ops' = o
  /\ ev' = [op |-> "deleted", ok |-> FALSE, id |-> c.cl.id, session |-> edit]
  /\ UNCHANGED <<columnHasSaved, destroyed, edit, isEditingSV, gesture, reloadPending,
                 startMinSV, endMinSV>>

\* saveAndExitEditMode without its `if (!ok) forceExitEditModeRef.current()`
BlurCommitRejectedKeeping(c, o) ==
  /\ startMinSV' = c.cl.lastCommittedStart
  /\ endMinSV' = c.cl.lastCommittedEnd
  /\ IF edit = NoEdit
     THEN /\ ops' = o
          /\ UNCHANGED <<columnHasSaved, destroyed, edit, isEditingSV, gesture>>
     ELSE Render([edit EXCEPT !.isDirty = FALSE, !.isCommitting = FALSE],
                 segmentsByDate, startDayOffsetSV, endDayOffsetSV, gesture, o)
  /\ ev' = [op |-> "blurExit", ok |-> FALSE, forced |-> FALSE, id |-> c.cl.id]
  /\ UNCHANGED reloadPending

\* the upsert of a commitEdit that saveAndExitEditMode awaits has thrown: the
\* catch block of commitEdit, exitEditMode returns false, and
\* saveAndExitEditMode calls forceExitEditMode
BlurCommitRejected(c, o) ==
  /\ startMinSV' = c.cl.lastCommittedStart
  /\ endMinSV' = c.cl.lastCommittedEnd
  /\ Render(NoEdit, segmentsByDate, startDayOffsetSV, endDayOffsetSV,
            NoGesture, o)
  /\ ev' = [op |-> "blurExit", ok |-> FALSE, forced |-> TRUE, id |-> c.cl.id]
  /\ UNCHANGED reloadPending

\* the continuation of the caller that awaits the store call
Resolved(c, o) ==
  CASE c.kind = "auto" -> AutoCommitResolved(c, o)
    [] c.kind = "commit" -> CommitResolved(c, o)
    [] c.kind = "blur" -> CommitResolved(c, o)
    [] c.kind = "delete" -> DeleteResolved(c, o)

Rejected(c, o) ==
  CASE c.kind = "auto" -> AutoCommitRejected(c, o)
    [] c.kind = "commit" -> CommitRejected(c, o)
    [] c.kind = "blur" -> BlurCommitRejected(c, o)
    [] c.kind = "delete" -> DeleteRejected(c, o)

\* SELECT ... WHERE id=?  (upsertSegment: does the row exist; deleteSegment:
\* the row, and return when there is none)
StoreSelect(i) ==
  /\ i \in 1..Len(ops) /\ ops[i].pc = "select"
  /\ IF ops[i].kind = "delete" /\ ops[i].cl.id \notin DOMAIN store
     THEN Resolved(ops[i], RemoveAt(ops, i))
     ELSE /\ ops' =
               IF ops[i].kind = "delete"
               THEN \* seg, kept for the recomputations (start, and end if closed)
                    LET seg == store[ops[i].cl.id]
                    IN [ops EXCEPT ![i].pc = "write",
                                   ![i].existing = TRUE,
                                   ![i].start = seg.start_utc,
                                   ![i].end = IF IsOpen(seg) THEN seg.start_utc
                                              ELSE EndOf(seg)]
               ELSE [ops EXCEPT ![i].pc = "write",
                                ![i].existing = (ops[i].cl.id \in DOMAIN store)]
          /\ ev' = Quiet
          /\ UNCHANGED <<columnHasSaved, destroyed, edit, isEditingSV, gesture, reloadPending,
                         startMinSV, endMinSV>>
  /\ UNCHANGED <<store, dayIndex, nFail>>
  /\ UNCHANGED StoreFrame

\* UPDATE / INSERT / DELETE; an INSERT of an id that is present violates the
\* primary key and throws
StoreWrite(i) ==
  /\ i \in 1..Len(ops) /\ ops[i].pc = "write"
  /\ LET c == ops[i]
         id == c.cl.id
     IN IF c.kind # "delete" /\ ~c.existing /\ id \in DOMAIN store
        THEN /\ Rejected(c, RemoveAt(ops, i))
             /\ UNCHANGED store
        ELSE /\ store' =
                  IF c.kind = "delete" THEN Delete(store, id)
                  ELSE IF c.existing /\ id \notin DOMAIN store THEN store
                  ELSE Upsert(store, id, Seg(c.start, c.end))
             /\ ops' = [ops EXCEPT ![i].pc = "recompute"]
             /\ ev' = Quiet
             /\ UNCHANGED <<columnHasSaved, destroyed, edit, isEditingSV, gesture, reloadPending,
                            startMinSV, endMinSV>>
  /\ UNCHANGED <<dayIndex, nFail>>
  /\ UNCHANGED StoreFrame

\* the day-index recomputations end and the call returns to its caller
StoreReturn(i) ==
  /\ i \in 1..Len(ops) /\ ops[i].pc = "recompute"
  /\ dayIndex' = RecomputeWritten(dayIndex, store, ops[i].start, ops[i].end)
  /\ Resolved(ops[i], RemoveAt(ops, i))
  /\ UNCHANGED <<store, nFail>>
  /\ UNCHANGED StoreFrame

\* a statement of the call fails (I/O error) and the call throws
StoreThrow(i) ==
  /\ i \in 1..Len(ops) /\ ops[i].pc \in {"write", "recompute"}
  /\ nFail < MaxFailures
  /\ nFail' = nFail + 1
  /\ Rejected(ops[i], RemoveAt(ops, i))
  /\ UNCHANGED <<store, dayIndex>>
  /\ UNCHANGED StoreFrame

\* loadDates, started by onPersist (reloadVisible), sets a new segmentsByDate;
\* checkOverlap changes identity and the auto-commit effect runs again
reloadVisible ==
  /\ reloadPending
  /\ reloadPending' = FALSE
  /\ segmentsByDate' = store
  /\ IF edit = NoEdit
     THEN /\ ops' = CancelAuto(ops)
          /\ UNCHANGED <<columnHasSaved, destroyed, edit, isEditingSV, gesture>>
     ELSE RenderWith(edit, store, startDayOffsetSV, endDayOffsetSV, gesture,
                     ops, TRUE)
  /\ ev' = Quiet
  /\ UNCHANGED <<startMinSV, endMinSV, startDayOffsetSV, endDayOffsetSV,
                 activeDayStartMsSV, store, dayIndex, nSessions, nGest,
                 nFail, spanOkAtStart>>

\* ------------------------------------------------------------ specification
\* the editor is mounted with no session and the timeline screen has loaded
\* the visible days once, so the snapshot equals the store
Init ==
  /\ edit = NoEdit
  /\ startMinSV = 0 /\ endMinSV = 0
  /\ startDayOffsetSV = 0 /\ endDayOffsetSV = 0
  /\ isEditingSV = 0
  /\ activeDayStartMsSV = 0
  /\ gesture = NoGesture
  /\ store = InitStore
  /\ dayIndex = IndexAfterWrites(NoDays, store, DOMAIN store)
  /\ segmentsByDate = store
  /\ reloadPending = FALSE
  /\ ops = <<>>
  /\ nSessions = 0 /\ nGest = 0 /\ nFail = 0
  /\ spanOkAtStart = FALSE
  /\ columnHasSaved = FALSE
  /\ destroyed = {}
  /\ ev = [op |-> "init"]

LongPressEmpty ==
  \E d \in Days, m \in PressMinutes, dur \in DefaultDurations :
    longPressEmpty(d, m, dur)
LongPressSeg == \E i \in DOMAIN segmentsByDate, d \in Days : longPressSegGesture(i, d)
GTopStart == gTopOnStart
GTopChange == \E t \in Translations : gTopOnChange(t[1], t[2])
GTopEnd == gTopOnEnd
GBottomStart == gBottomOnStart
GBottomChange == \E t \in Translations : gBottomOnChange(t[1], t[2])
GBottomEnd == gBottomOnEnd
GBodyStart == gBodyOnStart
GBodyChange == \E t \in Translations : gBodyOnChange(t[1], t[2])
GBodyEnd == gBodyOnEnd
Exit == exitEditMode
Unmount == unmountCleanup
BlurForceExit == saveAndExitEditMode
DoubleTapDelete == deleteEdit
Select == \E i \in 1..MaxOps : StoreSelect(i)
Write == \E i \in 1..MaxOps : StoreWrite(i)
Return == \E i \in 1..MaxOps : StoreReturn(i)
Throw == \E i \in 1..MaxOps : StoreThrow(i)
Reload == reloadVisible

Next ==
  \/ LongPressEmpty \/ LongPressSeg
  \/ GTopStart \/ GTopChange \/ GTopEnd
  \/ GBottomStart \/ GBottomChange \/ GBottomEnd
  \/ GBodyStart \/ GBodyChange \/ GBodyEnd
  \/ Exit \/ Unmount \/ BlurForceExit \/ DoubleTapDelete
  \/ Select \/ Write \/ Return \/ Throw
  \/ Reload

Spec == Init /\ [][Next]_vars

\* ------------------------------------- specification: the overlap validator
\* the editor with no session, nothing in flight
EditorIdle ==
  /\ edit = NoEdit
  /\ startMinSV = 0 /\ endMinSV = 0
  /\ startDayOffsetSV = 0 /\ endDayOffsetSV = 0
  /\ isEditingSV = 0
  /\ activeDayStartMsSV = 0
  /\ gesture = NoGesture
  /\ reloadPending = FALSE
  /\ ops = <<>>
  /\ nSessions = 0 /\ nGest = 0 /\ nFail = 0
  /\ spanOkAtStart = FALSE
  /\ columnHasSaved = FALSE
  /\ destroyed = {}

\* instants of day 0 the validator is called with: 10:00, 11:00, 11:01,
\* 11:40, 12:00
OverlapInstants == {At(0, 600), At(0, 660), At(0, 661), At(0, 700), At(0, 720)}

\* committed-interval snapshots: a closed interval 11:00 -> 12:00 with an
\* open one, the closed interval alone, two closed intervals, none
OverlapSnapshots ==
  { [i \in {<<"db", 1>>, <<"db", 2>>} |->
       IF i = <<"db", 1>> THEN Seg(At(0, 660), At(0, 720))
       ELSE OpenSeg(At(0, 600))],
    [i \in {<<"db", 1>>} |-> Seg(At(0, 660), At(0, 720))],
    [i \in {<<"db", 1>>, <<"db", 2>>} |->
       IF i = <<"db", 1>> THEN Seg(At(0, 600), At(0, 661))
       ELSE Seg(At(0, 700), At(0, 720))],
    NoRows }

InitOverlap ==
  /\ EditorIdle
  /\ segmentsByDate \in OverlapSnapshots
  /\ store = segmentsByDate
  /\ dayIndex = IndexAfterWrites(NoDays, store, DOMAIN store)
  /\ ev = [op |-> "init"]

CheckOverlapCall ==
  \E start \in OverlapInstants, end \in OverlapInstants,
     excludeId \in DOMAIN segmentsByDate \cup {NoId} :
    /\ ev' = [op |-> "checkOverlap", start |-> start, end |-> end,
              excludeId |-> excludeId,
              result |-> checkOverlap(segmentsByDate, start, end, excludeId)]
    /\ UNCHANGED <<edit, startMinSV, endMinSV, startDayOffsetSV,
                   endDayOffsetSV, isEditingSV, activeDayStartMsSV, gesture,
                   store, dayIndex, segmentsByDate, reloadPending, ops, nSessions,
                   nGest, nFail, spanOkAtStart, columnHasSaved, destroyed>>

NextOverlap == CheckOverlapCall

SpecOverlap == InitOverlap /\ [][NextOverlap]_vars

\* ------------------------------------------ specification: starting a session
\* press positions over the whole column height and values of the
\* defaultDurationMin preference below, inside and above [60, 1440]
PressMinutesAll == {0, 3, 718, 1320, 1378, 1380, 1383, 1440}
DefaultDurationsAll == {30, 60, 62, 480, 1440, 2000}

\* the timeline of a fresh install, or the one of Init
InitStartNew ==
  /\ EditorIdle
  /\ store \in {InitStore, NoRows}
  /\ dayIndex = IndexAfterWrites(NoDays, store, DOMAIN store)
  /\ segmentsByDate = store
  /\ ev = [op |-> "init"]

LongPressEmptyAny ==
  \E d \in Days, m \in PressMinutesAll, dur \in DefaultDurationsAll :
    longPressEmpty(d, m, dur)

NextStartNew == LongPressEmptyAny \/ Unmount

SpecStartNew == InitStartNew /\ [][NextStartNew]_vars

\* ------------------------------------------- specification: the store alone
\* the writes of db.ts, each call run to its end before the next one starts
DbIds == {<<"db", 1>>, <<"db", 2>>}
\* 10:00 and 23:30 of day 0, 01:30 and 10:00 of day 1, 01:00 of day 2
DbInstants == {At(0, 600), At(0, 1410), At(1, 90), At(1, 600), At(2, 60)}

DbFrame == <<edit, startMinSV, endMinSV, startDayOffsetSV, endDayOffsetSV,
             isEditingSV, activeDayStartMsSV, gesture, segmentsByDate,
             reloadPending, ops, nSessions, nGest, nFail, spanOkAtStart,
             columnHasSaved, destroyed>>

\* a fresh install after migrate(): both tables empty
InitDb ==
  /\ EditorIdle
  /\ store = NoRows
  /\ dayIndex = NoDays
  /\ segmentsByDate = store
  /\ ev = [op |-> "init"]

createOpenPrimary(id, now) ==
  /\ id \notin DOMAIN store
  /\ store' = Upsert(store, id, OpenSeg(now))
  /\ dayIndex' = recomputeDayIndexForUtcInstant(dayIndex, store', now)
  /\ ev' = [op |-> "createOpenPrimary", id |-> id,
            recomputed |-> {LocalDay(now)}]
  /\ UNCHANGED DbFrame

\* a close that takes the open row with the earliest start
closeEarliestOpenPrimary(endUtc) ==
  LET open == {i \in DOMAIN store : IsOpen(store[i])}
  IN IF open = {}
     THEN /\ ev' = [op |-> "closeLatestOpenPrimary", id |-> NoId,
                    recomputed |-> {}]
          /\ UNCHANGED <<store, dayIndex>>
          /\ UNCHANGED DbFrame
     ELSE \E id \in open :
            /\ \A j \in open : store[j].start_utc >= store[id].start_utc
            /\ store' = Upsert(store, id, Seg(store[id].start_utc, endUtc))
            /\ dayIndex' = RecomputeWritten(dayIndex, store',
                                            store[id].start_utc, endUtc)
            /\ ev' = [op |-> "closeLatestOpenPrimary", id |-> id,
                      recomputed |-> {LocalDay(store[id].start_utc),
                                      LocalDay(endUtc)}]
            /\ UNCHANGED DbFrame

\* the open row with the latest start (ORDER BY start_utc DESC LIMIT 1)
closeLatestOpenPrimary(endUtc) ==
  LET open == {i \in DOMAIN store : IsOpen(store[i])}
  IN IF open = {}
     THEN /\ ev' = [op |-> "closeLatestOpenPrimary", id |-> NoId,
                    recomputed |-> {}]
          /\ UNCHANGED <<store, dayIndex>>
          /\ UNCHANGED DbFrame
     ELSE \E id \in open :
            /\ \A j \in open : store[j].start_utc <= store[id].start_utc
            /\ store' = Upsert(store, id, Seg(store[id].start_utc, endUtc))
            /\ dayIndex' = RecomputeWritten(dayIndex, store',
                                            store[id].start_utc, endUtc)
            /\ ev' = [op |-> "closeLatestOpenPrimary", id |-> id,
                      recomputed |-> {LocalDay(store[id].start_utc),
                                      LocalDay(endUtc)}]
            /\ UNCHANGED DbFrame

\* called with a closed interval; the editor passes end after start, the
\* CSV import (csvExport.ts) whatever the file holds
upsertSegment(id, startUtc, endUtc) ==
  /\ store' = Upsert(store, id, Seg(startUtc, endUtc))
  /\ dayIndex' = RecomputeWritten(dayIndex, store', startUtc, endUtc)
  /\ ev' = [op |-> "upsertSegment", id |-> id,
            recomputed |-> {LocalDay(startUtc), LocalDay(endUtc)}]
  /\ UNCHANGED DbFrame

deleteSegment(id) ==
  IF id \notin DOMAIN store
  THEN /\ ev' = [op |-> "deleteSegment", id |-> id, recomputed |-> {}]
       /\ UNCHANGED <<store, dayIndex>>
       /\ UNCHANGED DbFrame
  ELSE LET seg == store[id]
           endUtc == IF IsOpen(seg) THEN seg.start_utc ELSE EndOf(seg)
       IN /\ store' = Delete(store, id)
          /\ dayIndex' = RecomputeWritten(dayIndex, store', seg.start_utc, endUtc)
          /\ ev' = [op |-> "deleteSegment", id |-> id,
                    recomputed |-> {LocalDay(seg.start_utc), LocalDay(endUtc)}]
          /\ UNCHANGED DbFrame

\* a call of db.ts that throws: the statements before the failing one have
\* taken effect.  step names the failing statement: "write" the SELECT or the
\* row write itself, "recomputeStart" / "recomputeEnd" a statement of the
\* recomputation of the start day / of the end day
ThrowSteps == {"write", "recomputeStart", "recomputeEnd"}

Threw(call, id, step) ==
  [op |-> "threw", call |-> call, id |-> id, step |-> step]

\* the rows and the day index a call leaves that wrote st and threw at step
AfterThrow(st, startUtc, step) ==
  /\ store' = IF step = "write" THEN store ELSE st
  /\ dayIndex' = IF step = "recomputeEnd"
                 THEN recomputeDayIndexForUtcInstant(dayIndex, st, startUtc)
                 ELSE dayIndex

upsertSegmentThrows(id, startUtc, endUtc, step) ==
  /\ AfterThrow(Upsert(store, id, Seg(startUtc, endUtc)), startUtc, step)
  /\ ev' = Threw("upsertSegment", id, step)
  /\ UNCHANGED DbFrame

\* without the row only the SELECT can fail
deleteSegmentThrows(id, step) ==
  /\ id \in DOMAIN store \/ step = "write"
  /\ IF id \in DOMAIN store
     THEN AfterThrow(Delete(store, id), store[id].start_utc, step)
     ELSE UNCHANGED <<store, dayIndex>>
  /\ ev' = Threw("deleteSegment", id, step)
  /\ UNCHANGED DbFrame

closeLatestOpenPrimaryThrows(endUtc, step) ==
  LET open == {i \in DOMAIN store : IsOpen(store[i])}
  IN IF open = {}
     THEN /\ step = "write"
          /\ ev' = Threw("closeLatestOpenPrimary", NoId, step)
          /\ UNCHANGED <<store, dayIndex>>
          /\ UNCHANGED DbFrame
     ELSE \E id \in open :
            /\ \A j \in open : store[j].start_utc <= store[id].start_utc
            /\ AfterThrow(Upsert(store, id, Seg(store[id].start_utc, endUtc)),
                          store[id].start_utc, step)
            /\ ev' = Threw("closeLatestOpenPrimary", id, step)
            /\ UNCHANGED DbFrame

\* ---- importSleepSegments
ImportRow(id, startUtc, end, source) ==
  [id |-> id, start_utc |-> startUtc, end_utc |-> end, source |-> source]

\* rows of a backup file: a closed interval 10:00 -> 23:30, an interval whose
\* end 10:00 of day 0 is before its start 01:30 of day 1, an open interval,
\* a row with an unknown source
ImportRows ==
  { ImportRow(<<"db", 1>>, At(0, 600), <<At(0, 1410)>>, "user"),
    ImportRow(<<"db", 2>>, At(1, 90), <<At(0, 600)>>, "user"),
    ImportRow(<<"db", 2>>, At(1, 600), <<>>, "notif"),
    ImportRow(<<"db", 1>>, At(1, 90), <<At(1, 600)>>, "other") }

\* files of one row, and of a closed valid row followed by any row
ImportPayloads ==
  {<<r>> : r \in ImportRows}
    \cup {<<r, q>> : r \in {x \in ImportRows :
                                x.end_utc # <<>> /\ x.source = "user"},
                     q \in ImportRows}

normalizeImportRow(row) == row.source \in {"user", "notif"}

\* the rows to insert: valid, id neither stored nor earlier in the payload
RECURSIVE ToInsert(_, _)
ToInsert(payload, existingIds) ==
  IF payload = <<>> THEN <<>>
  ELSE LET row == Head(payload)
       IN IF ~normalizeImportRow(row) \/ row.id \in existingIds
          THEN ToInsert(Tail(payload), existingIds)
          ELSE <<row>> \o ToInsert(Tail(payload), existingIds \cup {row.id})

RECURSIVE InsertAll(_, _)
InsertAll(st, rows) ==
  IF rows = <<>> THEN st
  ELSE InsertAll(Upsert(st, Head(rows).id,
                        [start_utc |-> Head(rows).start_utc,
                         end_utc |-> Head(rows).end_utc]),
                 Tail(rows))

AddDate(dates, d) ==
  IF \E k \in 1..Len(dates) : dates[k] = d THEN dates ELSE Append(dates, d)

\* affectedDates, in the order the Set received them
RECURSIVE AffectedDates(_, _)
AffectedDates(rows, dates) ==
  IF rows = <<>> THEN dates
  ELSE LET row == Head(rows)
           withStart == AddDate(dates, LocalDay(row.start_utc))
       IN AffectedDates(Tail(rows),
                        IF row.end_utc = <<>> THEN withStart
                        ELSE AddDate(withStart, LocalDay(row.end_utc[1])))

RECURSIVE RecomputeDates(_, _, _)
RecomputeDates(ix, st, dates) ==
  IF dates = <<>> THEN ix
  ELSE RecomputeDates(recomputeDayIndexForLocalDate(ix, st, Head(dates)),
                      st, Tail(dates))

importSleepSegments(payload) ==
  LET toInsert == ToInsert(payload, DOMAIN store)
      dates == AffectedDates(toInsert, <<>>)
  IN /\ store' = InsertAll(store, toInsert)
     /\ dayIndex' = RecomputeDates(dayIndex, store', dates)
     /\ ev' = [op |-> "importSleepSegments", inserted |-> Len(toInsert),
               recomputed |-> {dates[k] : k \in 1..Len(dates)}]
     /\ UNCHANGED DbFrame

\* a statement inside BEGIN TRANSACTION ... COMMIT fails (failedDate = 0):
\* ROLLBACK and rethrow; or the recomputation of the failedDate-th affected
\* date fails, after COMMIT
importSleepSegmentsThrows(payload, failedDate) ==
  LET toInsert == ToInsert(payload, DOMAIN store)
      dates == AffectedDates(toInsert, <<>>)
  IN /\ failedDate \in 0..Len(dates)
     /\ store' = IF failedDate = 0 THEN store ELSE InsertAll(store, toInsert)
     /\ dayIndex' = IF failedDate = 0 THEN dayIndex
                    ELSE RecomputeDates(dayIndex, store',
                                        SubSeq(dates, 1, failedDate - 1))
     /\ ev' = [op |-> "threw", call |-> "importSleepSegments",
               step |-> IF failedDate = 0 THEN "write" ELSE "recompute"]
     /\ UNCHANGED DbFrame

CreateOpen == \E id \in DbIds, now \in DbInstants : createOpenPrimary(id, now)
\* the calls of the editor and of the log screen: the end is after the start
CloseLatestOpen ==
  \E endUtc \in DbInstants :
    /\ \A i \in DOMAIN store : IsOpen(store[i]) => endUtc > store[i].start_utc
    /\ closeLatestOpenPrimary(endUtc)
UpsertSegment ==
  \E id \in DbIds, startUtc \in DbInstants, endUtc \in DbInstants :
    /\ startUtc < endUtc
    /\ upsertSegment(id, startUtc, endUtc)
DeleteSegment == \E id \in DbIds : deleteSegment(id)

NextDb == CreateOpen \/ CloseLatestOpen \/ UpsertSegment \/ DeleteSegment

SpecDb == InitDb /\ [][NextDb]_vars

\* ------------------------- specification: the store alone, with every caller
\* the writes of db.ts with the arguments any caller can pass (an explicit
\* end instant, the rows of a CSV file or of a backup), and calls that throw
\* 10:00 and 23:30 of day 0, 01:30 of day 1
WriteInstants == {At(0, 600), At(0, 1410), At(1, 90)}

CreateOpenAny == \E id \in DbIds, now \in WriteInstants : createOpenPrimary(id, now)
CloseLatestOpenAny == \E endUtc \in WriteInstants : closeLatestOpenPrimary(endUtc)
UpsertSegmentAny ==
  \E id \in DbIds, startUtc \in WriteInstants, endUtc \in WriteInstants :
    upsertSegment(id, startUtc, endUtc)
ImportSegments == \E payload \in ImportPayloads : importSleepSegments(payload)
UpsertThrows ==
  \E id \in DbIds, startUtc \in WriteInstants, endUtc \in WriteInstants,
     step \in ThrowSteps :
    upsertSegmentThrows(id, startUtc, endUtc, step)
DeleteThrows ==
  \E id \in DbIds, step \in ThrowSteps : deleteSegmentThrows(id, step)
CloseThrows ==
  \E endUtc \in WriteInstants, step \in ThrowSteps :
    closeLatestOpenPrimaryThrows(endUtc, step)
ImportThrows ==
  \E payload \in ImportPayloads :
    \E failedDate \in 0..(2 * Len(payload)) :
      importSleepSegmentsThrows(payload, failedDate)

NextWrites ==
  \/ CreateOpenAny \/ CloseLatestOpenAny \/ UpsertSegmentAny \/ DeleteSegment
  \/ ImportSegments
  \/ UpsertThrows \/ DeleteThrows \/ CloseThrows \/ ImportThrows

SpecWrites == InitDb /\ [][NextWrites]_vars

\* -------------------------------- specification: store calls that interleave
\* upsertSegment and deleteSegment calls started while other calls are in
\* flight; a step is one awaited statement of one call, and the statements of
\* different calls run in any order
\* 10:00, 11:00 and 12:00 of day 0: every write touches local day 0
AsyncInstants == {At(0, 600), At(0, 660), At(0, 720)}

AsyncFrame == <<edit, startMinSV, endMinSV, startDayOffsetSV, endDayOffsetSV,
                isEditingSV, activeDayStartMsSV, gesture, segmentsByDate,
                reloadPending, nSessions, nGest, nFail, spanOkAtStart,
                columnHasSaved, destroyed>>

\* a call of db.ts at its first statement; days are the local days it has
\* still to recompute, total the sum its last read of a day gave
DbCall(kind, id, startUtc, endUtc) ==
  [kind |-> kind, id |-> id, start |-> startUtc, end |-> endUtc,
   pc |-> "select", existing |-> FALSE, days |-> <<>>, total |-> 0]

InitAsync ==
  /\ EditorIdle
  /\ store = NoRows
  /\ dayIndex = NoDays
  /\ segmentsByDate = store
  /\ ev = [op |-> "init"]

callUpsertSegment(id, startUtc, endUtc) ==
  /\ Len(ops) < MaxOps
  /\ startUtc < endUtc
  /\ ops' = Append(ops, DbCall("upsert", id, startUtc, endUtc))
  /\ ev' = Quiet
  /\ UNCHANGED <<store, dayIndex>>
  /\ UNCHANGED AsyncFrame

callDeleteSegment(id) ==
  /\ Len(ops) < MaxOps
  /\ ops' = Append(ops, DbCall("delete", id, 0, 0))
  /\ ev' = Quiet
  /\ UNCHANGED <<store, dayIndex>>
  /\ UNCHANGED AsyncFrame

\* SELECT id FROM sleep_segments WHERE id=? (upsertSegment) /
\* SELECT * ... WHERE id=?; if (!seg) return (deleteSegment)
AsyncSelect(i) ==
  /\ i \in 1..Len(ops) /\ ops[i].pc = "select"
  /\ LET c == ops[i]
     IN IF c.kind = "delete" /\ c.id \notin DOMAIN store
        THEN /\ ops' = RemoveAt(ops, i)
             /\ ev' = [op |-> "returned", kind |-> c.kind, id |-> c.id]
        ELSE /\ ops' =
                  IF c.kind = "delete"
                  THEN LET seg == store[c.id]
                       IN [ops EXCEPT ![i].pc = "write",
                                      ![i].existing = TRUE,
                                      ![i].start = seg.start_utc,
                                      ![i].end = IF IsOpen(seg)
                                                 THEN seg.start_utc
                                                 ELSE EndOf(seg)]
                  ELSE [ops EXCEPT ![i].pc = "write",
                                   ![i].existing = (c.id \in DOMAIN store)]
             /\ ev' = Quiet
  /\ UNCHANGED <<store, dayIndex>>
  /\ UNCHANGED AsyncFrame

\* UPDATE ... WHERE id=? / INSERT (throws when the id is present) / DELETE;
\* then the call goes on to recompute the day of the start and of the end
AsyncWrite(i) ==
  /\ i \in 1..Len(ops) /\ ops[i].pc = "write"
  /\ LET c == ops[i]
     IN IF c.kind = "upsert" /\ ~c.existing /\ c.id \in DOMAIN store
        THEN /\ ops' = RemoveAt(ops, i)
             /\ ev' = [op |-> "threw", kind |-> c.kind, id |-> c.id]
             /\ UNCHANGED store
        ELSE /\ store' =
                  IF c.kind = "delete" THEN Delete(store, c.id)
                  ELSE IF c.existing /\ c.id \notin DOMAIN store THEN store
                  ELSE Upsert(store, c.id, Seg(c.start, c.end))
             /\ ops' = [ops EXCEPT ![i].pc = "read",
                                   ![i].days = <<LocalDay(c.start),
                                                 LocalDay(c.end)>>]
             /\ ev' = Quiet
  /\ UNCHANGED dayIndex
  /\ UNCHANGED AsyncFrame

\* recomputeDayIndexForLocalDate: const segs = await getSegmentsForLocalDate;
\* for (const s of segs) total += ...
AsyncRead(i) ==
  /\ i \in 1..Len(ops) /\ ops[i].pc = "read"
  /\ ops' = [ops EXCEPT
               ![i].pc = "index",
               ![i].total =
                  TotalOf(store,
                          getSegmentsForLocalDate(store, Head(ops[i].days)))]
  /\ ev' = Quiet
  /\ UNCHANGED <<store, dayIndex>>
  /\ UNCHANGED AsyncFrame

\* INSERT INTO day_index ... ON CONFLICT(local_date) DO UPDATE with the total
SetDayTotal(ix, localDate, total) ==
  [d \in DOMAIN ix \cup {localDate} |-> IF d = localDate THEN total ELSE ix[d]]

\* the day_index write of a recomputation; after the last one the call returns
AsyncIndex(i) ==
  /\ i \in 1..Len(ops) /\ ops[i].pc = "index"
  /\ LET c == ops[i]
     IN /\ dayIndex' = SetDayTotal(dayIndex, Head(c.days), c.total)
        /\ IF Len(c.days) = 1
           THEN /\ ops' = RemoveAt(ops, i)
                /\ ev' = [op |-> "returned", kind |-> c.kind, id |-> c.id]
           ELSE /\ ops' = [ops EXCEPT ![i].pc = "read",
                                      ![i].days = Tail(c.days)]
                /\ ev' = Quiet
  /\ UNCHANGED store
  /\ UNCHANGED AsyncFrame

CallUpsert ==
  \E id \in DbIds, startUtc \in AsyncInstants, endUtc \in AsyncInstants :
    callUpsertSegment(id, startUtc, endUtc)
CallDelete == \E id \in DbIds : callDeleteSegment(id)
AsyncSelectStep == \E i \in 1..MaxOps : AsyncSelect(i)
AsyncWriteStep == \E i \in 1..MaxOps : AsyncWrite(i)
AsyncReadStep == \E i \in 1..MaxOps : AsyncRead(i)
AsyncIndexStep == \E i \in 1..MaxOps : AsyncIndex(i)

NextAsync ==
  \/ CallUpsert \/ CallDelete
  \/ AsyncSelectStep \/ AsyncWriteStep \/ AsyncReadStep \/ AsyncIndexStep

SpecAsync == InitAsync /\ [][NextAsync]_vars

\* ------------------------------------- specification: the time helpers alone
\* The helpers of time.ts under the time zone rule of the device.  An instant
\* is a count of minutes; a rule shows, on the wall clock, the instant itself
\* before the instant `at` and the instant plus `shift` minutes from `at` on.
NoTransition == [at |-> At(0, 0), shift |-> 0]
\* on day 1 the clocks go from 02:00 to 03:00
SpringForward == [at |-> At(1, 120), shift |-> 60]
\* on day 1 the clocks go from 03:00 back to 02:00
FallBack == [at |-> At(1, 180), shift |-> 0 - 60]

Zones == {NoTransition, SpringForward, FallBack}

\* a wall clock that ignores the transition
LocalOfStandard(z, t) == t

\* the wall-clock reading of new Date(iso) / dayjs(date), as minutes since
\* midnight of day 0
LocalOf(z, t) == IF t < z.at THEN t ELSE t + z.shift

\* new Date(year, month, day, hours, minutes): the instant of a wall-clock
\* reading; a reading the transition skips is taken with the offset before
\* the transition, a reading it repeats is the first of the two
UtcOfLocal(z, l) ==
  IF l < z.at THEN l
  ELSE IF l - z.shift >= z.at THEN l - z.shift
  ELSE l

\* utcIsoToLocal(isoUtc).format("YYYY-MM-DD")
localDateKeyFromUtcIso(z, isoUtc) == LocalOf(z, isoUtc) \div MINUTES_PER_DAY

\* d.hour() * 60 + d.minute()
minutesFromMidnightLocal(z, isoUtc) == LocalOf(z, isoUtc) % MINUTES_PER_DAY

\* localDateFromDayAndMinutes on a device with rule z
localDateFromDayAndMinutesIn(z, dayKey, minutesFromMidnight) ==
  UtcOfLocal(z, localDateFromDayAndMinutes(dayKey, minutesFromMidnight))

\* a day that lasts 1440 minutes whatever the clocks do
addDayFixed(z, t) == t + MINUTES_PER_DAY

\* startOf("day") and add(1, "day") of a local dayjs value
startOfDay(z, t) == UtcOfLocal(z, localDateKeyFromUtcIso(z, t) * MINUTES_PER_DAY)
addDay(z, t) == UtcOfLocal(z, LocalOf(z, t) + MINUTES_PER_DAY)

\* the while loop of splitSegmentByLocalDays
RECURSIVE SplitLoop(_, _, _, _)
SplitLoop(z, cur, cursor, endLocal) ==
  IF ~(cursor < endLocal) THEN <<>>
  ELSE LET dayEnd == addDay(z, cur)
           segEnd == IF endLocal < dayEnd THEN endLocal ELSE dayEnd
       IN <<[date |-> localDateKeyFromUtcIso(z, cursor),
             startLocalIso |-> cursor,
             endLocalIso |-> segEnd]>>
            \o SplitLoop(z, startOfDay(z, dayEnd), segEnd, endLocal)

splitSegmentByLocalDays(z, startUtc, endUtc) ==
  SplitLoop(z, startOfDay(z, startUtc), startUtc, endUtc)

\* clampSegmentToLocalDay: <<>> is null; endUtc is <<>> for an open interval
clampSegmentToLocalDay(z, dateKey, startUtc, endUtc) ==
  LET dayStartDate == UtcOfLocal(z, dateKey * MINUTES_PER_DAY)
      dayEndDate == UtcOfLocal(z, (dateKey + 1) * MINUTES_PER_DAY)
      segStartDate == startUtc
      segEndDate == IF endUtc = <<>> THEN dayEndDate ELSE endUtc[1]
      startClamped == IF segStartDate > dayStartDate THEN segStartDate
                      ELSE dayStartDate
      endClamped == IF segEndDate < dayEndDate THEN segEndDate ELSE dayEndDate
      startMin == startClamped - dayStartDate
      endMin == endClamped - dayStartDate
  IN IF endClamped <= startClamped THEN <<>>
     ELSE <<[startMin |-> startMin,
             endMin |-> IF endMin >= 1440 THEN 1439 ELSE endMin]>>

TimeDays == {0, 1, 2}
\* minutes of the day around the hours the clocks change, and the ends
RoundTripMinutes == {0, 90, 119, 120, 150, 179, 180, 600, 1439}
\* minutes below 0, inside and above a day
RolloverMinutes == {0 - 1500, 0 - 90, 0 - 60, 0 - 1, 0, 60, 150, 1439, 1440, 1500, 2940}
RolloverDays == {0 - 2, 0 - 1, 0, 1, 2}
\* 10:00, 23:30 and 23:59 of day 0; midnight, 01:30, 02:30 and 10:00 of
\* day 1; midnight and 01:00 of day 2
TimeInstants ==
  {At(0, 600), At(0, 1410), At(0, 1439), At(1, 0), At(1, 90), At(1, 150),
   At(1, 600), At(2, 0), At(2, 60)}

\* stores the day query is run on: a row ending at the midnight that starts
\* day 1, a row starting at the midnight that ends it and an open row begun
\* on day 0; an open row begun on day 1 with a row inside day 1; an open row
\* begun on day 2 with a row across two midnights
TimeSnapshots ==
  { [i \in DbIds \cup {<<"db", 3>>} |->
       IF i = <<"db", 1>> THEN Seg(At(0, 1410), At(1, 0))
       ELSE IF i = <<"db", 2>> THEN Seg(At(2, 0), At(2, 60))
       ELSE OpenSeg(At(0, 600))],
    [i \in DbIds |-> IF i = <<"db", 1>> THEN OpenSeg(At(1, 600))
                     ELSE Seg(At(1, 90), At(1, 600))],
    [i \in DbIds |-> IF i = <<"db", 1>> THEN OpenSeg(At(2, 0))
                     ELSE Seg(At(0, 1410), At(2, 60))] }

InitTime ==
  /\ EditorIdle
  /\ store \in TimeSnapshots
  /\ dayIndex = IndexAfterWrites(NoDays, store, DOMAIN store)
  /\ segmentsByDate = store
  /\ ev = [op |-> "init"]

TimeFrame == <<edit, startMinSV, endMinSV, startDayOffsetSV, endDayOffsetSV,
               isEditingSV, activeDayStartMsSV, gesture, store, dayIndex,
               segmentsByDate, reloadPending, ops, nSessions, nGest, nFail,
               spanOkAtStart, columnHasSaved, destroyed>>

\* (dayKey, minute) -> Date -> localDateKeyFromUtcIso, minutesFromMidnightLocal
RoundTripCall ==
  \E z \in Zones, dayKey \in TimeDays, minute \in RoundTripMinutes :
    LET t == localDateFromDayAndMinutesIn(z, dayKey, minute)
    IN /\ ev' = [op |-> "roundTrip", zone |-> z, dayKey |-> dayKey,
                 minute |-> minute,
                 back |-> <<localDateKeyFromUtcIso(z, t),
                            minutesFromMidnightLocal(z, t)>>]
       /\ UNCHANGED TimeFrame

\* localDateFromDayAndMinutes(D, M) and (D + k, M - 1440 k)
RolloverCall ==
  \E z \in Zones, dayKey \in TimeDays, minute \in RolloverMinutes,
     k \in RolloverDays :
    /\ ev' = [op |-> "rollover", zone |-> z, dayKey |-> dayKey,
              minute |-> minute, k |-> k,
              a |-> localDateFromDayAndMinutesIn(z, dayKey, minute),
              b |-> localDateFromDayAndMinutesIn(
                      z, dayKey + k, minute - MINUTES_PER_DAY * k)]
    /\ UNCHANGED TimeFrame

GetSegmentsCall ==
  \E localDate \in TimeDays :
    /\ ev' = [op |-> "getSegmentsForLocalDate", localDate |-> localDate,
              rows |-> getSegmentsForLocalDate(store, localDate)]
    /\ UNCHANGED TimeFrame

SplitCall ==
  \E z \in Zones, startUtc \in TimeInstants, endUtc \in TimeInstants :
    /\ ev' = [op |-> "split", zone |-> z, start |-> startUtc, end |-> endUtc,
              parts |-> splitSegmentByLocalDays(z, startUtc, endUtc)]
    /\ UNCHANGED TimeFrame

ClampCall ==
  \E z \in Zones, dateKey \in TimeDays, startUtc \in TimeInstants,
     endUtc \in {<<>>} \cup {<<t>> : t \in TimeInstants} :
    /\ ev' = [op |-> "clamp", zone |-> z, dateKey |-> dateKey,
              start |-> startUtc, end |-> endUtc,
              result |-> clampSegmentToLocalDay(z, dateKey, startUtc, endUtc)]
    /\ UNCHANGED TimeFrame

NextTime ==
  \/ RoundTripCall \/ RolloverCall \/ GetSegmentsCall \/ SplitCall
  \/ ClampCall

SpecTime == InitTime /\ [][NextTime]_vars

\* ------------------------------------ specification: gestures on a session
\* Sessions opened on stored rows whose minutes are not multiples of the snap
\* step (rows written by start-now / wake-now) or that cross a midnight, the
\* three pan recognizers, markDirty arriving on the JS thread after the
\* worklet that scheduled it, and the unmount that clears the session.
GestureSnapshots ==
  { [i \in DbIds |-> IF i = <<"db", 1>> THEN Seg(At(0, 602), At(0, 662))
                     ELSE OpenSeg(At(0, 900))],
    [i \in DbIds |-> IF i = <<"db", 1>> THEN Seg(At(0, 1383), At(1, 63))
                     ELSE Seg(At(0 - 1, 1350), At(0, 390))],
    [i \in DbIds |-> IF i = <<"db", 1>> THEN Seg(At(0, 603), At(0, 663))
                     ELSE Seg(At(0, 901), At(0, 1024))] }

\* minute deltas and day shifts of a pan: none, down, up, far down and far up
\* (across a midnight), one column right, one left, two right
GestureTranslations ==
  {<<0, 0>>, <<0 - 7, 0>>, <<63, 0>>, <<0 - 700, 0>>, <<900, 0>>,
   <<0, 1>>, <<0, 0 - 1>>, <<0 - 3, 2>>}

InitGesture ==
  /\ EditorIdle
  /\ store \in GestureSnapshots
  /\ dayIndex = IndexAfterWrites(NoDays, store, DOMAIN store)
  /\ segmentsByDate = store
  /\ ev = [op |-> "init"]

GTopChangeAny == \E t \in GestureTranslations : gTopOnChange(t[1], t[2])
GBottomChangeAny == \E t \in GestureTranslations : gBottomOnChange(t[1], t[2])
GBodyChangeAny == \E t \in GestureTranslations : gBodyOnChange(t[1], t[2])

\* scheduleOnRN(markDirty): the callback runs on the JS thread, with the
\* session as it is by then
MarkDirtyCall ==
  /\ markDirty(startDayOffsetSV, endDayOffsetSV, gesture)
  /\ ev' = [op |-> "markDirty", idle |-> (edit = NoEdit)]
  /\ UNCHANGED <<startMinSV, endMinSV, startDayOffsetSV, endDayOffsetSV, nGest>>
  /\ UNCHANGED GestureFrame

NextGesture ==
  \/ LongPressSeg
  \/ GTopStart \/ GTopChangeAny \/ GTopEnd
  \/ GBottomStart \/ GBottomChangeAny \/ GBottomEnd
  \/ GBodyStart \/ GBodyChangeAny \/ GBodyEnd
  \/ MarkDirtyCall
  \/ Unmount

SpecGesture == InitGesture /\ [][NextGesture]_vars

\* ------------------ specification: start-existing where the clocks change
\* The editor with no store call in flight, in a device zone that stays the
\* same during a run (kept in ev.zone): long-presses on stored rows and the
\* Done button on a session that is not dirty.

\* Math.floor in the place of Math.round
RoundDaysDown(m) == m \div MINUTES_PER_DAY

\* Math.round(ms / 86400000), in minutes
RoundDays(m) == (2 * m + MINUTES_PER_DAY) \div (2 * MINUTES_PER_DAY)

\* stored rows around 02:00 of day 1: a row across the midnight before it
\* ending at 03:30 with an open row; a row 01:30 -> 02:30 with a row across
\* the next midnight; a row 03:20 -> 05:00 with a row inside day 0
ExistingSnapshots ==
  { [i \in DbIds |-> IF i = <<"db", 1>> THEN Seg(At(0, 1410), At(1, 210))
                     ELSE OpenSeg(At(2, 0))],
    [i \in DbIds |-> IF i = <<"db", 1>> THEN Seg(At(1, 90), At(1, 150))
                     ELSE Seg(At(1, 600), At(2, 60))],
    [i \in DbIds |-> IF i = <<"db", 1>> THEN Seg(At(1, 200), At(1, 300))
                     ELSE Seg(At(0, 600), At(0, 660))] }

InitExisting ==
  /\ EditorIdle
  /\ store \in ExistingSnapshots
  /\ dayIndex = IndexAfterWrites(NoDays, store, DOMAIN store)
  /\ segmentsByDate = store
  /\ \E z \in Zones : ev = [op |-> "init", zone |-> z]

\* startExistingEdit(seg, dayKey, dayStartMs) with the Date methods of zone z
startExistingEditIn(z, i, dateKey) ==
  LET seg == segmentsByDate[i]
  IN IF IsOpen(seg)
     THEN /\ ev' = [op |-> "startExisting", zone |-> z, rejected |-> TRUE,
                    id |-> i, anchor |-> dateKey]
          /\ UNCHANGED <<columnHasSaved, destroyed, edit, startMinSV, endMinSV,
                         startDayOffsetSV, endDayOffsetSV, isEditingSV,
                         activeDayStartMsSV, gesture, store, dayIndex,
                         segmentsByDate, reloadPending, ops, nSessions, nGest,
                         nFail, spanOkAtStart>>
     ELSE LET dayStartMs == UtcOfLocal(z, dateKey * MINUTES_PER_DAY)
              startDayMs == startOfDay(z, seg.start_utc)
              endDayMs == startOfDay(z, EndOf(seg))
              startDayOffset == RoundDays(startDayMs - dayStartMs)
              endDayOffset == RoundDays(endDayMs - dayStartMs)
              startMin == minutesFromMidnightLocal(z, seg.start_utc)
              endMin == minutesFromMidnightLocal(z, EndOf(seg))
              e == [id |-> i, hasSaved |-> TRUE, dayKey |-> dateKey,
                    isDirty |-> FALSE, lastCommittedStart |-> startMin,
                    lastCommittedEnd |-> endMin, isCommitting |-> FALSE]
          IN /\ nSessions < MaxSessions /\ Budget
             /\ nSessions' = nSessions + 1
             /\ activeDayStartMsSV' = dateKey
             /\ startMinSV' = startMin
             /\ endMinSV' = endMin
             /\ startDayOffsetSV' = startDayOffset
             /\ endDayOffsetSV' = endDayOffset
             /\ spanOkAtStart' =
                  (EndOf(seg) - seg.start_utc >= MIN_DURATION)
             /\ Render(e, segmentsByDate, startDayOffset, endDayOffset,
                       gesture, ops)
             /\ ev' = [op |-> "startExisting", zone |-> z, rejected |-> FALSE,
                       id |-> i, anchor |-> dateKey]
             /\ UNCHANGED <<store, dayIndex, segmentsByDate, reloadPending,
                            nGest, nFail>>

\* the long-press on a ribbon of the column of dateKey
longPressSegIn(z, i, dateKey) ==
  /\ i \in DOMAIN segmentsByDate
  /\ clampSegmentToLocalDay(z, dateKey, segmentsByDate[i].start_utc,
                            segmentsByDate[i].end_utc) # <<>>
  /\ ~isFocusedExisting(i)
  /\ startExistingEditIn(z, i, dateKey)

LongPressSegIn ==
  \E i \in DOMAIN segmentsByDate, d \in TimeDays : longPressSegIn(ev.zone, i, d)

\* exitEditMode on a session that is not dirty: setEdit(null), return true
ExitNotDirty ==
  /\ edit # NoEdit /\ ~edit.isDirty
  /\ Render(NoEdit, segmentsByDate, startDayOffsetSV, endDayOffsetSV,
            NoGesture, ops)
  /\ ev' = [op |-> "exit", zone |-> ev.zone]
  /\ UNCHANGED reloadPending
  /\ UNCHANGED EditorFrame

NextExisting == LongPressSegIn \/ ExitNotDirty

SpecExisting == InitExisting /\ [][NextExisting]_vars

\* ------------------------- specification: the editor with a late markDirty
\* The editor, its gestures and the store as in Spec; the markDirty that a
\* gesture callback schedules on the JS thread may also run later, when the
\* session has changed or is gone.
MarkDirtyScheduled ==
  /\ Budget
  /\ nGest' = nGest + 1
  /\ markDirty(startDayOffsetSV, endDayOffsetSV, gesture)
  /\ ev' = [op |-> "markDirty", idle |-> (edit = NoEdit)]
  /\ UNCHANGED <<startMinSV, endMinSV, startDayOffsetSV, endDayOffsetSV>>
  /\ UNCHANGED GestureFrame

NextFrame == Next \/ MarkDirtyScheduled

SpecFrame == Init /\ [][NextFrame]_vars

\* ----------------------------- specification: the timeline loses its focus
\* Sessions are started and dragged, then the screen is blurred and
\* saveAndExitEditMode runs; a blurred screen takes no more touches.  Every
\* store call goes on to its end: the statements of db.ts are weakly fair.

\* saveAndExitEditMode up to the first await on the store: exitEditMode, and
\* forceExitEditMode when commitEdit has returned false without a store call
blurSaveAndExit ==
  /\ edit # NoEdit
  /\ nGest' = MaxUserEvents
  /\ IF ~edit.isDirty
     THEN /\ Render(NoEdit, segmentsByDate, startDayOffsetSV, endDayOffsetSV,
                    NoGesture, ops)
          /\ ev' = [op |-> "blur", ok |-> TRUE, forced |-> FALSE,
                    awaits |-> FALSE]
     ELSE IF \/ CandidateEnd <= CandidateStart
             \/ checkOverlap(segmentsByDate, CandidateStart, CandidateEnd,
                             IF edit.hasSaved THEN edit.id ELSE NoId)
     THEN /\ Render(NoEdit, segmentsByDate, startDayOffsetSV, endDayOffsetSV,
                    NoGesture, ops)
          /\ ev' = [op |-> "blur", ok |-> FALSE, forced |-> TRUE,
                    awaits |-> FALSE]
     ELSE /\ Render([edit EXCEPT !.isCommitting = TRUE], segmentsByDate,
                    startDayOffsetSV, endDayOffsetSV, gesture,
                    Append(ops, StoreCall("blur", edit, CandidateStart,
                                          CandidateEnd, startMinSV, endMinSV)))
          /\ ev' = [op |-> "blur", ok |-> FALSE, forced |-> FALSE,
                    awaits |-> TRUE]
  /\ UNCHANGED <<startMinSV, endMinSV, startDayOffsetSV, endDayOffsetSV,
                 activeDayStartMsSV, store, dayIndex, segmentsByDate,
                 reloadPending, nSessions, nFail, spanOkAtStart>>

Blur == blurSaveAndExit

NextBlur ==
  \/ LongPressEmpty \/ LongPressSeg
  \/ GBodyStart \/ GBodyChange \/ GBodyEnd
  \/ Blur
  \/ Select \/ Write \/ Return \/ Throw
  \/ Reload

SpecBlur ==
  /\ Init /\ [][NextBlur]_vars
  /\ WF_vars(Select) /\ WF_vars(Write) /\ WF_vars(Return)

\* ------------------ specification: deleting a session that is not saved yet
\* Sessions are started from no session, and new ones are ended by a double tap
\* while hasSaved is still false; the store calls run to their end and none
\* fails; the timeline reloads the visible days after a save.
LongPressEmptyIdle == edit = NoEdit /\ LongPressEmpty
LongPressSegIdle == edit = NoEdit /\ LongPressSeg

DeleteUnsaved == edit # NoEdit /\ ~edit.hasSaved /\ deleteEdit

NextDeleteNew ==
  \/ LongPressEmptyIdle \/ LongPressSegIdle \/ DeleteUnsaved
  \/ Select \/ Write \/ Return
  \/ Reload

SpecDeleteNew == Init /\ [][NextDeleteNew]_vars

\* ------------------------------------------------------------------- claims
ActiveSession == edit # NoEdit /\ isEditingSV = 1

\* C1: after every handle-drag update of an active session the total span
\* (endDayOffset * 1440 + endMinute) - (startDayOffset * 1440 + startMinute)
\* is at least MIN_DURATION, provided the session started with such a span.
C1_HandleDragKeepsMinDuration ==
  (/\ ev.op \in {"gTop.onChange", "gBottom.onChange"}
   /\ ActiveSession
   /\ spanOkAtStart)
    => totalEndMin - totalStartMin >= MIN_DURATION

\* C2: in every state with an active session the end handle is not on a day
\* before the start handle: endDayOffset >= startDayOffset.
C2_EndDayNotBeforeStartDay ==
  ActiveSession => endDayOffsetSV >= startDayOffsetSV

\* C3: a Commit whose candidate has end <= start or overlaps another closed
\* interval reports failure, issues no store write, and leaves the session's
\* target id, hasSaved and isDirty as they were (the coordinates are not
\* assigned by the validation path).
C3_RejectedCommitChangesNothing ==
  (/\ ev.op = "exit" /\ ~ev.ok
   /\ ev.reason \in {"invalid", "overlap"})
    => /\ ev.writes = 0
       /\ edit # NoEdit
       /\ edit.id = ev.id
       /\ edit.hasSaved = ev.session.hasSaved
       /\ edit.isDirty = ev.session.isDirty

\* C4: for one edit session a Commit never issues its store write while the
\* store write of an earlier Commit of that session is still outstanding.
C4_NoSecondCommitWhileOutstanding ==
  ev.op = "commitEdit" => ev.outstanding = 0

\* C5: a long-press on an existing closed interval starts a session only from
\* Idle; while a session is active it does not replace that session.
C5_StartOnlyFromIdle ==
  (ev.op = "startExisting" /\ ~ev.rejected) => ~ev.replaced

\* C6: once the auto-commit of a new session has detected an overlap conflict
\* the session is gone (Idle, or a later session with another id) and the
\* store holds no interval with that session's id.
C6_ConflictLeavesNoRow ==
  \A id \in destroyed :
    /\ id \notin DOMAIN store
    /\ (edit # NoEdit => edit.id # id)

\* the auto-commit store calls in flight for session id
AutoCalls(o, id) ==
  Cardinality({i \in 1..Len(o) : o[i].kind = "auto" /\ o[i].cl.id = id})

AutoCommitStarted ==
  (ev.op = "startNew" /\ ~ev.conflict)
    => \E i \in 1..Len(ops) :
         /\ ops[i].kind = "auto" /\ ops[i].cl.id = ev.id
         /\ ~ops[i].isCancelled

AutoCommitSucceeded ==
  (ev.op = "autoCommit" /\ ev.ok /\ ev.applied)
    => /\ edit # NoEdit /\ edit.id = ev.id
       /\ edit.hasSaved /\ edit.isDirty
       /\ ev.id \in DOMAIN store

NoAutoCommitOnceSaved ==
  (edit' # NoEdit /\ edit'.hasSaved)
    => AutoCalls(ops', edit'.id) <= AutoCalls(ops, edit'.id)

C8_ExitOutcome ==
  ev.op = "exit"
    => IF ev.ok THEN edit = NoEdit
       ELSE edit # NoEdit /\ edit.id = ev.id

\* C9: when Exit reports success for a saved session, the stored interval of
\* the session equals the instants its coordinates encode at that moment.
C9_ExitKeepsEdits ==
  (ev.op = "exit" /\ ev.ok /\ ~ev.idle /\ ev.saved)
    => /\ ev.id \in DOMAIN store
       /\ store[ev.id] = Seg(ev.start, ev.end)

\* C10: Delete on a session with hasSaved = false issues no deleteSegment
\* call, clears the session and leaves the editor Idle.
C10_DeleteUnsavedIsLocal ==
  (ev.op = "delete" /\ ~ev.saved)
    => /\ ev.storeCalls = 0
       /\ DeleteCalls(ops, ev.id) = 0
       /\ edit = NoEdit
       /\ isEditingSV = 0

\* a new session deleted while its auto-commit is still in flight
C10_Witness ==
  /\ ev.op = "delete" /\ ~ev.saved
  /\ ev.id = <<"uuid", 1>>
  /\ edit = NoEdit
  /\ AutoCalls(ops, ev.id) = 1

\* a Delete of a saved session goes to the store
DeleteSavedCallsStore ==
  (ev.op = "delete" /\ ev.saved) => ev.storeCalls = 1

\* when deleteSegment has returned the row is gone, the session is cleared
\* and the reload of the timeline has been requested
DeleteSucceeded ==
  (ev.op = "deleted" /\ ev.ok)
    => /\ ev.id \notin DOMAIN store
       /\ edit = NoEdit
       /\ reloadPending

\* when deleteSegment has thrown the session is the one it was and the row
\* is still stored
DeleteFailed ==
  (ev.op = "deleted" /\ ~ev.ok)
    => /\ edit = ev.session
       /\ ev.id \in DOMAIN store

\* C11: Delete on a session with hasSaved = true removes the interval with the
\* session's id from the store, then clears the session and requests the
\* refresh; if the store delete fails the session stays as it was and the
\* stored row remains.
C11_DeleteSaved ==
  DeleteSavedCallsStore /\ DeleteSucceeded /\ DeleteFailed

\* C12: whatever the state force-exit is called in (no session, a new or an
\* existing session, clean or dirty, a commit or an auto-commit in flight),
\* it leaves the editor Idle and adds no store call of its own; the handler
\* has no branch that throws.
C12_ForceExitToIdle ==
  ev.op = "forceExit"
    => /\ edit = NoEdit
       /\ isEditingSV = 0
       /\ gesture = NoGesture
       /\ ev.storeCalls = 0

\* force-exit of an active session whose commit is still in flight
C12_Witness ==
  /\ ev.op = "forceExit" /\ ev.active
  /\ edit = NoEdit
  /\ \E i \in 1..Len(ops) : ops[i].kind = "commit" /\ ops[i].pc = "select"

\* C13: when the store write of a Commit has failed, the session it was
\* committing (saved, still the active one) stays active and its four
\* coordinates are back at the last committed values, so the interval they
\* encode equals the stored row of the session.
C13_FailedCommitReverts ==
  (/\ ev.op = "exit" /\ ~ev.ok /\ ev.reason = "store"
   /\ ev.session # NoEdit /\ ev.session.id = ev.id /\ ev.session.hasSaved
   /\ ev.id \in DOMAIN store)
    => /\ edit # NoEdit
       /\ edit.id = ev.id
       /\ store[ev.id] = Seg(CandidateStart, CandidateEnd)

\* the upsert calls of commitEdit in flight for session id
CommitCalls(o, id) ==
  Cardinality({i \in 1..Len(o) : o[i].kind = "commit" /\ o[i].cl.id = id})

CommitOutstanding == edit # NoEdit /\ CommitCalls(ops, edit.id) > 0

\* a step of Exit, Delete, force-exit or Start-existing that is not the
\* completion of a Commit of the session keeps the session
NoTransitionDuringCommit ==
  (/\ CommitOutstanding
   /\ CommitCalls(ops', edit.id) >= CommitCalls(ops, edit.id)
   /\ ev'.op \in {"exit", "delete", "deleted", "forceExit", "startExisting"})
    => edit' # NoEdit /\ edit'.id = edit.id

\* C14: while the store write of a Commit is outstanding, no Exit, Delete,
\* force-exit or Start-existing clears or replaces the session; the session
\* changes hands only when that Commit has completed.
C14_CommitRunsToCompletion == [][NoTransitionDuringCommit]_vars

\* every store call in flight for row id is a Commit of the coordinates the
\* row already holds: an earlier Commit of them has been written
CommitRewrites(id) ==
  /\ CommitCalls(ops, id) > 0
  /\ \A i \in 1..Len(ops) :
       ops[i].cl.id = id
         => ops[i].kind = "commit" /\ Seg(ops[i].start, ops[i].end) = store[id]

CommitIdempotent ==
  \A id \in DOMAIN store :
    CommitRewrites(id) => id \in DOMAIN store' /\ store'[id] = store[id]

\* C15: a second Commit of a session with unchanged coordinates leaves the
\* store with the one row of the session's id (the id is the primary key),
\* holding the start and end the first Commit wrote.
C15_CommitIdempotent == [][CommitIdempotent]_vars

\* two Commits of one session with the same coordinates (Save pressed twice):
\* both have found the row and run their UPDATE
C15_Witness ==
  /\ Len(ops) = 2
  /\ \A i \in 1..2 :
       /\ ops[i].kind = "commit" /\ ops[i].pc = "recompute" /\ ops[i].existing
       /\ ops[i].cl.id = ops[1].cl.id
       /\ ops[i].start = ops[1].start /\ ops[i].end = ops[1].end
  /\ ops[1].cl.id \in DOMAIN store
  /\ store[ops[1].cl.id] = Seg(ops[1].start, ops[1].end)
  /\ Cardinality(DOMAIN store) = Cardinality(DOMAIN InitStore)

\* the half-open intervals [a1, a2) and [b1, b2) have a minute in common
ShareMinute(a1, a2, b1, b2) ==
  \E m \in Min(a1, b1)..Max(a2, b2) :
    /\ a1 <= m /\ m < a2
    /\ b1 <= m /\ m < b2

\* C16: the validator answers true exactly when the candidate has
\* end <= start or shares time with a closed interval other than the excluded
\* one; intervals that only touch do not conflict and open intervals never do.
C16_OverlapIff ==
  ev.op = "checkOverlap"
    => (ev.result
          <=> \/ ev.end <= ev.start
              \/ \E i \in DOMAIN segmentsByDate :
                   /\ i # ev.excludeId
                   /\ ~IsOpen(segmentsByDate[i])
                   /\ ShareMinute(segmentsByDate[i].start_utc,
                                  EndOf(segmentsByDate[i]), ev.start, ev.end))

\* 10:00 -> 11:00 against a stored 11:00 -> 12:00 and an open interval begun
\* at 10:00: no conflict
C16_Witness ==
  /\ ev.op = "checkOverlap" /\ ~ev.result
  /\ ev.start = At(0, 600) /\ ev.end = At(0, 660) /\ ev.excludeId = NoId
  /\ <<"db", 2>> \in DOMAIN segmentsByDate
  /\ IsOpen(segmentsByDate[<<"db", 2>>])
  /\ segmentsByDate[<<"db", 1>>] = Seg(At(0, 660), At(0, 720))

\* C17: the closed intervals of the store never overlap, whatever editor
\* operations and reloads of the snapshot have run (they do not overlap in
\* the initial store).
C17_StoreNeverOverlaps ==
  \A i \in DOMAIN store, j \in DOMAIN store :
    (i # j /\ ~IsOpen(store[i]) /\ ~IsOpen(store[j]))
      => ~(Max(store[i].start_utc, store[j].start_utc)
             < Min(EndOf(store[i]), EndOf(store[j])))

\* what the long-press at pressMin with preference defaultDurationMin must
\* leave in the coordinates of the session it starts
StartNewCoordinates(pressMin, defaultDurationMin) ==
  LET s == PressStartMin(pressMin)
      d == DesiredDuration(defaultDurationMin)
  IN /\ IF s + d >= MINUTES_PER_DAY
        THEN /\ startDayOffsetSV' = 0 /\ endDayOffsetSV' = 1
             /\ endMinSV' = wSnapTo(s + d - MINUTES_PER_DAY, safeSnap)
             /\ 0 <= endMinSV' /\ endMinSV' < MINUTES_PER_DAY
        ELSE /\ startDayOffsetSV' = 0 /\ endDayOffsetSV' = 0
             /\ endMinSV' <= MINUTES_PER_DAY - 1
     /\ (s = 1380 /\ d = 480) => (endMinSV' = 420 /\ endDayOffsetSV' = 1)
     /\ (s = 1380 /\ d = 60) => (endMinSV' = 0 /\ endDayOffsetSV' = 1)

StartNewStep ==
  \A dateKey \in Days, m \in PressMinutesAll, dur \in DefaultDurationsAll :
    (edit = NoEdit /\ longPressEmpty(dateKey, m, dur) /\ edit' # NoEdit)
      => StartNewCoordinates(m, dur)

\* C18: a session started by a long-press at minute s (clamped and snapped)
\* with duration d (clamped to [60, 1440]) has startDayOffset 0, endDayOffset
\* 1 and endMinute snap(s + d - 1440) in [0, 1440) when s + d >= 1440, and
\* both offsets 0 with endMinute <= 1439 otherwise; 23:00 with 480 gives
\* 07:00 of the next day, 23:00 with 60 gives 00:00 of the next day.
C18_StartNewOvernight == [][StartNewStep]_vars

\* a session started at 23:00 with the default duration 480
C18_Witness ==
  /\ ev.op = "startNew" /\ ~ev.conflict
  /\ edit # NoEdit /\ ~edit.hasSaved
  /\ startMinSV = 1380 /\ startDayOffsetSV = 0
  /\ endMinSV = 420 /\ endDayOffsetSV = 1

\* the minutes of a closed row that fall inside the local day
\* [midnight, next midnight)
MinutesInDay(seg, localDate) ==
  Max(0, Min(EndOf(seg), (localDate + 1) * MINUTES_PER_DAY)
           - Max(seg.start_utc, localDate * MINUTES_PER_DAY))

RECURSIVE ClampedTotal(_, _, _)
ClampedTotal(st, ids, localDate) ==
  IF ids = {} THEN 0
  ELSE LET i == CHOOSE j \in ids : TRUE
       IN (IF IsOpen(st[i]) THEN 0 ELSE MinutesInDay(st[i], localDate))
          + ClampedTotal(st, ids \ {i}, localDate)

\* C19: after a write has recomputed a local day, the total of that day is
\* the sum over the closed intervals of the minutes that fall inside the day
\* (23:30 -> 01:30 counts 30 minutes on the first day and 90 on the second).
C19_DayTotalCountsMinutesOfTheDay ==
  ev.op \in {"createOpenPrimary", "closeLatestOpenPrimary", "upsertSegment",
             "deleteSegment"}
    => \A d \in ev.recomputed :
         /\ d \in DOMAIN dayIndex
         /\ dayIndex[d] = ClampedTotal(store, DOMAIN store, d)

\* the local days the instants of DbInstants lie on
DbDays == {LocalDay(t) : t \in DbInstants}

\* total_sleep_min of a day; a day without a row has no sleep recorded
StoredTotal(localDate) ==
  IF localDate \in DOMAIN dayIndex THEN dayIndex[localDate] ELSE 0

\* C20: after any sequence of completed createOpenPrimary,
\* closeLatestOpenPrimary, upsertSegment and deleteSegment calls the stored
\* total of every local day is the one a recomputation of that day gives from
\* the rows now stored.
C20_DayIndexNeverStale ==
  \A d \in DbDays :
    StoredTotal(d) = TotalOf(store, getSegmentsForLocalDate(store, d))

\* C21: when upsertSegment and deleteSegment calls on one local day have
\* interleaved in any order and all of them have returned, the stored total
\* of every recomputed day is the one a recomputation gives from the rows now
\* stored.
C21_RecomputeSelfCorrecting ==
  (ops = <<>> /\ ev.op = "returned")
    => \A d \in DOMAIN dayIndex :
         dayIndex[d] = TotalOf(store, getSegmentsForLocalDate(store, d))

\* the step ends an upsertSegment call of the editor by a throw: the catch
\* block of commitNewSegment or of commitEdit has run
UpsertThrew ==
  \/ ev'.op = "autoCommit" /\ ~ev'.ok
  \/ ev'.op = "exit" /\ ~ev'.ok /\ ev'.reason = "store"

UpsertFailsOnlyOnIoError == UpsertThrew => nFail' = nFail + 1

\* C22: upsertSegment is insert-or-update by id: however two calls with the
\* same id interleave (a re-triggered auto-commit, a Commit of the same new
\* session), a call throws only when the store itself failed (I/O error),
\* and the id keeps its single row.
C22_UpsertByIdNeverFails == [][UpsertFailsOnlyOnIoError]_vars

\* a step in which a call of the store throws leaves the rows as they were
ThrowLeavesRows == ev'.op = "threw" => store' = store

\* C23: when upsertSegment, deleteSegment, closeLatestOpenPrimary or
\* importSleepSegments fails at any of its statements and throws, the rows of
\* sleep_segments are the ones stored before the call (so a Commit reported
\* as failed has not changed its row).
C23_FailedCallChangesNothing == [][ThrowLeavesRows]_vars

\* C24: every closed interval of the store has its end after its start,
\* whatever writes have run: upsertSegment, closeLatestOpenPrimary with or
\* without an explicit end instant, importSleepSegments.
C24_ClosedIntervalsArePositive ==
  \A i \in DOMAIN store :
    ~IsOpen(store[i]) => EndOf(store[i]) > store[i].start_utc

\* what a completed closeLatestOpenPrimary(endUtc) must have done to the rows
\* and returned (ev'.id)
CloseEffect(endUtc) ==
  LET open == {i \in DOMAIN store : IsOpen(store[i])}
  IN IF open = {}
     THEN ev'.id = NoId /\ store' = store
     ELSE /\ ev'.id \in open
          /\ \A j \in open : store[j].start_utc <= store[ev'.id].start_utc
          /\ DOMAIN store' = DOMAIN store
          /\ store'[ev'.id] = Seg(store[ev'.id].start_utc, endUtc)
          /\ \A j \in DOMAIN store \ {ev'.id} : store'[j] = store[j]

CloseStep ==
  \A endUtc \in WriteInstants :
    closeLatestOpenPrimary(endUtc) => CloseEffect(endUtc)

\* C25: closeLatestOpenPrimary returns null and leaves the rows unchanged
\* when no row is open; otherwise it sets the end of exactly one row, the
\* open row with the latest start, returns its id and leaves every other row
\* unchanged.
C25_CloseLatestOpenFrame == [][CloseStep]_vars

\* two rows were open and the call closed the later one, db2
C25_Witness ==
  /\ ev.op = "closeLatestOpenPrimary" /\ ev.id = <<"db", 2>>
  /\ DOMAIN store = DbIds
  /\ IsOpen(store[<<"db", 1>>]) /\ ~IsOpen(store[<<"db", 2>>])
  /\ store[<<"db", 1>>].start_utc < store[<<"db", 2>>].start_utc

\* C26 (as stated): for every day key D and minute M in [0,1440), (D, M)
\* converted to an instant with localDateFromDayAndMinutes and back with
\* localDateKeyFromUtcIso and minutesFromMidnightLocal is (D, M) again.
C26_RoundTripAnyReading ==
  ev.op = "roundTrip" => ev.back = <<ev.dayKey, ev.minute>>

\* a wall-clock reading that no instant shows: the clocks jump over it
Skipped(z, l) == z.shift > 0 /\ z.at <= l /\ l < z.at + z.shift

\* C26 (amended): the round trip returns (D, M) for every wall-clock reading
\* that exists on day D, among them a reading the clocks show twice; a
\* reading the clocks skip comes back moved forward by the length of the jump.
C26_RoundTripExistingReading ==
  ev.op = "roundTrip" =>
    LET l == ev.dayKey * MINUTES_PER_DAY + ev.minute
    IN IF Skipped(ev.zone, l)
       THEN ev.back = <<(l + ev.zone.shift) \div MINUTES_PER_DAY,
                        (l + ev.zone.shift) % MINUTES_PER_DAY>>
       ELSE ev.back = <<ev.dayKey, ev.minute>>

\* a reading after the clocks changed, and one the clocks show twice, both
\* back unchanged
C26_Witness ==
  /\ ev.op = "roundTrip"
  /\ ev.zone = FallBack
  /\ ev.dayKey = 1
  /\ ev.minute = 150
  /\ ev.back = <<1, 150>>

\* C27: localDateFromDayAndMinutes rolls minutes outside [0,1440) into the
\* neighbouring days: for every day key D, integer minute M (below 0 and from
\* 1440 up included) and integer k, (D, M) and (D + k days, M - 1440 k) give
\* the same instant, so (D, 1500) is (D + 1, 60) and (D, -60) is (D - 1, 1380);
\* where the clocks do not change that instant is M minutes after the
\* midnight that starts day D.
C27_Rollover ==
  ev.op = "rollover" =>
    /\ ev.a = ev.b
    /\ ev.zone = NoTransition => ev.a = ev.dayKey * MINUTES_PER_DAY + ev.minute

\* an hour and a half before the midnight of day 1, asked as (1, -90) and
\* as (0, 1350)
C27_Witness ==
  /\ ev.op = "rollover"
  /\ ev.zone = NoTransition
  /\ ev.dayKey = 1
  /\ ev.minute = 0 - 90
  /\ ev.k = 0 - 1
  /\ ev.a = At(0, 1350)
  /\ ev.b = At(0, 1350)

RECURSIVE PartsTotal(_)
PartsTotal(parts) ==
  IF parts = <<>> THEN 0
  ELSE (parts[1].endLocalIso - parts[1].startLocalIso) + PartsTotal(Tail(parts))

\* C29: splitSegmentByLocalDays(start, end) returns contiguous pieces (the
\* first begins at start, each next one where the previous one ends, the last
\* ends at end), each inside one local calendar day and labelled with that
\* day, so the lengths of the pieces add up to end - start; for end <= start
\* it returns the empty list.
C29_SplitByLocalDays ==
  ev.op = "split" =>
    IF ev.end <= ev.start THEN ev.parts = <<>>
    ELSE /\ Len(ev.parts) >= 1
         /\ ev.parts[1].startLocalIso = ev.start
         /\ ev.parts[Len(ev.parts)].endLocalIso = ev.end
         /\ \A n \in 1..(Len(ev.parts) - 1) :
              ev.parts[n + 1].startLocalIso = ev.parts[n].endLocalIso
         /\ \A n \in 1..Len(ev.parts) :
              /\ ev.parts[n].startLocalIso < ev.parts[n].endLocalIso
              /\ ev.parts[n].date
                   = localDateKeyFromUtcIso(ev.zone, ev.parts[n].startLocalIso)
              /\ UtcOfLocal(ev.zone, ev.parts[n].date * MINUTES_PER_DAY)
                   <= ev.parts[n].startLocalIso
              /\ ev.parts[n].endLocalIso
                   <= UtcOfLocal(ev.zone,
                                 (ev.parts[n].date + 1) * MINUTES_PER_DAY)
         /\ PartsTotal(ev.parts) = ev.end - ev.start

\* 23:30 of day 0 to 01:00 of day 2 where day 1 has 23 hours: three pieces,
\* the middle one the whole of day 1
C29_Witness ==
  /\ ev.op = "split"
  /\ ev.zone = SpringForward
  /\ ev.start = At(0, 1410)
  /\ Len(ev.parts) = 3
  /\ ev.parts[1].date = 0
  /\ ev.parts[2].date = 1
  /\ ev.parts[2].endLocalIso - ev.parts[2].startLocalIso = 1380
  /\ ev.parts[3].date = 2
  /\ ev.parts[3].endLocalIso = ev.end

\* C30: clampSegmentToLocalDay(day, start, end) returns null when the part of
\* the interval inside the day's [midnight, next midnight) window is empty or
\* not positive; otherwise it returns whole minutes since the day's midnight
\* with 0 <= startMin, endMin < 1440 and startMin < endMin, an open interval
\* being cut at the end of the day.
C30_ClampToLocalDay ==
  ev.op = "clamp" =>
    LET dayStart == UtcOfLocal(ev.zone, ev.dateKey * MINUTES_PER_DAY)
        dayEnd == UtcOfLocal(ev.zone, (ev.dateKey + 1) * MINUTES_PER_DAY)
        segEnd == IF ev.end = <<>> THEN dayEnd ELSE ev.end[1]
        from == Max(ev.start, dayStart)
        to == Min(segEnd, dayEnd)
    IN IF to <= from THEN ev.result = <<>>
       ELSE /\ ev.result # <<>>
            /\ 0 <= ev.result[1].startMin
            /\ ev.result[1].endMin < 1440
            /\ ev.result[1].startMin < ev.result[1].endMin

\* C31: when a handle-drag gesture has ended on an active session, also after
\* a drag that took the handle to another day column or across midnight, the
\* minute of the dragged handle is a multiple of the snap granularity and
\* lies in [0,1440) (the overflow of the snap carried into the handle's day
\* offset) and the session is dirty.
C31_HandleDragEndSnaps ==
  (ev.op \in {"gTop.onEnd", "gBottom.onEnd"} /\ ActiveSession)
    => LET minute == IF ev.op = "gTop.onEnd" THEN endMinSV ELSE startMinSV
       IN /\ minute % safeSnap = 0
          /\ 0 <= minute /\ minute < MINUTES_PER_DAY
          /\ edit.isDirty

\* a gesture-end callback on a session whose span is at least MIN_DURATION
\* leaves the span at least MIN_DURATION
SnapKeepsMinDuration ==
  (/\ ev'.op \in {"gTop.onEnd", "gBottom.onEnd", "gBody.onEnd"}
   /\ nGest' = nGest + 1
   /\ ActiveSession
   /\ totalEndMin - totalStartMin >= MIN_DURATION
   /\ edit' # NoEdit)
    => totalEndMin' - totalStartMin' >= MIN_DURATION

\* C32: the snap applied when a handle drag or a body drag ends never takes
\* the total span below MIN_DURATION, whatever minutes the session holds,
\* start or end minutes that are not multiples of the snap step included
\* (intervals made by start-now / close).
C32_SnapKeepsMinDuration == [][SnapKeepsMinDuration]_vars

\* the coordinates a body-drag update by (deltaMin, dayShift) must leave
BodyDragEffect(deltaMin, dayShift) ==
  LET initStart == gesture.initStartMin
                     + gesture.initStartOffset * MINUTES_PER_DAY
      initEnd == gesture.initEndMin + gesture.initEndOffset * MINUTES_PER_DAY
      shift == deltaMin + dayShift * MINUTES_PER_DAY
  IN /\ totalStartMin' = initStart + shift
     /\ totalEndMin' = initEnd + shift
     /\ totalEndMin' - totalStartMin' = initEnd - initStart
     /\ 0 <= startMinSV' /\ startMinSV' < MINUTES_PER_DAY
     /\ 0 <= endMinSV' /\ endMinSV' < MINUTES_PER_DAY

BodyDragStep ==
  \A t \in GestureTranslations :
    (isEditingSV = 1 /\ gBodyOnChange(t[1], t[2]))
      => BodyDragEffect(t[1], t[2])

\* C33: every body-drag update sets both handles from the snapshot taken at
\* gesture start plus the same minute delta and the same day shift, so the
\* total span equals the span at gesture start, and after the normalisation
\* both minutes lie in [0,1440).
C33_BodyDragKeepsSpan == [][BodyDragStep]_vars

\* a body drag upwards across the midnight, then another update of the same
\* gesture: the row 23:03 -> 01:03 moved by 900 minutes
C33_Witness ==
  /\ ev.op = "gBody.onChange"
  /\ ActiveSession
  /\ gesture.kind = "body"
  /\ gesture.initStartMin = 1383 /\ gesture.initStartOffset = 0
  /\ startMinSV = 843 /\ startDayOffsetSV = 1
  /\ endMinSV = 963 /\ endDayOffsetSV = 1

\* the instant commitEdit computes from a day offset and a minute in zone z
DecodeIn(z, dayKey, dayOffset, minute) ==
  localDateFromDayAndMinutesIn(z, getDateKeyFromOffset(dayKey, dayOffset), minute)

\* the instant lies in the second pass of an hour a backward change repeats
Repeated(z, t) == z.shift < 0 /\ z.at <= t /\ t < z.at - z.shift

\* what Start-existing on row i from anchor day d leaves, but for the decoding
ExistingEntered(z, i, d) ==
  LET seg == segmentsByDate[i]
  IN IF IsOpen(seg)
     THEN /\ edit' = edit /\ isEditingSV' = isEditingSV
          /\ UNCHANGED <<startMinSV, endMinSV, startDayOffsetSV, endDayOffsetSV>>
          /\ (edit = NoEdit => edit' = NoEdit /\ isEditingSV' = 0)
     ELSE /\ edit' # NoEdit /\ edit'.id = i /\ isEditingSV' = 1
          /\ edit'.hasSaved /\ ~edit'.isDirty
          /\ edit'.dayKey = d
          /\ startDayOffsetSV' = localDateKeyFromUtcIso(z, seg.start_utc) - d
          /\ endDayOffsetSV' = localDateKeyFromUtcIso(z, EndOf(seg)) - d
          /\ startMinSV' = LocalOf(z, seg.start_utc) % MINUTES_PER_DAY
          /\ endMinSV' = LocalOf(z, EndOf(seg)) % MINUTES_PER_DAY

ExistingRoundTripAny ==
  \A i \in DOMAIN segmentsByDate, d \in TimeDays :
    longPressSegIn(ev.zone, i, d)
      => /\ ExistingEntered(ev.zone, i, d)
         /\ ~IsOpen(segmentsByDate[i])
              => /\ DecodeIn(ev.zone, d, startDayOffsetSV', startMinSV')
                      = segmentsByDate[i].start_utc
                 /\ DecodeIn(ev.zone, d, endDayOffsetSV', endMinSV')
                      = EndOf(segmentsByDate[i])

ExistingRoundTripOnce ==
  \A i \in DOMAIN segmentsByDate, d \in TimeDays :
    longPressSegIn(ev.zone, i, d)
      => /\ ExistingEntered(ev.zone, i, d)
         /\ ~IsOpen(segmentsByDate[i])
              => LET s == segmentsByDate[i].start_utc
                     e == EndOf(segmentsByDate[i])
                     ds == DecodeIn(ev.zone, d, startDayOffsetSV', startMinSV')
                     de == DecodeIn(ev.zone, d, endDayOffsetSV', endMinSV')
                 IN /\ ds = IF Repeated(ev.zone, s) THEN s + ev.zone.shift ELSE s
                    /\ de = IF Repeated(ev.zone, e) THEN e + ev.zone.shift ELSE e

GestureStep ==
  \/ GTopStart \/ GTopChange \/ GTopEnd
  \/ GBottomStart \/ GBottomChange \/ GBottomEnd
  \/ GBodyStart \/ GBodyChange \/ GBodyEnd
  \/ MarkDirtyScheduled

GesturesLeaveStore ==
  /\ \/ /\ UNCHANGED <<store, dayIndex, segmentsByDate>>
        /\ edit = NoEdit
             => UNCHANGED <<edit, isEditingSV, startMinSV, endMinSV,
                            startDayOffsetSV, endDayOffsetSV,
                            activeDayStartMsSV, gesture, ops, reloadPending>>
     \/ ~GestureStep
  /\ (store' # store \/ dayIndex' # dayIndex)
       => \E i \in 1..Len(ops) :
            /\ ops[i].kind \in {"auto", "commit", "delete"}
            /\ StoreWrite(i) \/ StoreReturn(i)

\* C35: handle-drag updates, body-drag updates, gesture ends and mark-dirty
\* change only the session in memory: they never write to the store, so the
\* rows and the day totals read from it stay as they are until a store call
\* of an auto-commit, a Commit or a Delete writes; mark-dirty with no session
\* changes nothing.
C35_GesturesLeaveStore == [][GesturesLeaveStore]_vars

\* a drag has ended on the session of a stored row and marked it dirty: the
\* session's start differs from the row's, which the store and the snapshot
\* still hold
C35_Witness ==
  /\ ev.op \in {"gTop.onEnd", "gBottom.onEnd", "gBody.onEnd"}
  /\ ActiveSession /\ edit.hasSaved /\ edit.isDirty
  /\ edit.id \in DOMAIN store
  /\ store = InitStore /\ segmentsByDate = store
  /\ <<CandidateStart, CandidateEnd>>
       # <<store[edit.id].start_utc, EndOf(store[edit.id])>>

\* markDirty ran with no session
C35_WitnessIdle ==
  ev.op = "markDirty" /\ ev.idle /\ edit = NoEdit /\ isEditingSV = 0

\* saveAndExitEditMode has run on a session and awaits the store
BlurPending == ev.op = "blur" /\ ev.awaits /\ edit # NoEdit

\* C36: when the timeline loses its focus while a session is active, the
\* editor eventually has no session: saveAndExitEditMode attempts Exit,
\* committing first if the session is dirty, and force-exits if Exit reports
\* a failure, so the session is cleared whether the commit succeeds or fails,
\* as long as every store call returns.
C36_BlurLeadsToIdle ==
  /\ [][Blur => (edit' = NoEdit \/ BlurPending')]_vars
  /\ BlurPending ~> (edit = NoEdit)

\* the commit that the blur awaited has thrown and the session was force-exited
C36_Witness ==
  /\ ev.op = "blurExit" /\ ~ev.ok /\ ev.forced
  /\ edit = NoEdit /\ isEditingSV = 0

LateCommitCompletion(i) ==
  /\ ops[i].kind = "commit"
  /\ edit = NoEdit \/ edit.id # ops[i].cl.id
  /\ StoreWrite(i) \/ StoreReturn(i) \/ StoreThrow(i)
  /\ ev'.op = "exit"

LateCommitLeavesState ==
  \A i \in 1..Len(ops) :
    LateCommitCompletion(i)
      => IF edit = NoEdit
         THEN edit' = NoEdit /\ isEditingSV' = 0
         ELSE /\ edit' # NoEdit
              /\ edit'.id = edit.id
              /\ edit'.hasSaved = edit.hasSaved
              /\ edit'.isDirty = edit.isDirty
              /\ UNCHANGED <<startMinSV, endMinSV, startDayOffsetSV,
                             endDayOffsetSV>>

\* C38: a Commit that completes, with success or with a store failure, after
\* its session has been cleared or replaced by a session for another
\* interval does not modify the newer state: the newer session's
\* coordinates, hasSaved and isDirty are as before the completion, and a
\* machine with no session stays without one.
C38_LateCommitLeavesState == [][LateCommitLeavesState]_vars

\* C39: if Delete is invoked on a newly created session while the store
\* write of its auto-commit is still in flight (hasSaved still false), then
\* once all outstanding operations have completed the store holds no row
\* with that session's id: a deleted, never-saved session leaves nothing
\* persisted.
C39_DeletedUnsavedLeavesNothing ==
  ops = <<>>
    => \A id \in DOMAIN store :
         id[1] = "uuid" => (edit # NoEdit /\ edit.id = id)

====
